---- MODULE Spec2Model ----
(***************************************************************************)
(* Model of SecureJsonEncoder (src/JSON_encoder_GUI/secure_json_encoder.py) *)
(* encrypt_json / decrypt_json, step by step, over a small file system:     *)
(* the destination file, the scratch file and the key images.               *)
(*                                                                          *)
(* Bytes are the integers 0..255 and byte strings are sequences of them.    *)
(* The library primitives are idealised:                                    *)
(*   - PBKDF2 is an injective term constructor over (password, salt);       *)
(*   - HMAC-SHA256 is an injective term constructor over (key, data); a     *)
(*     32-byte digest is kept as that term plus its bytewise difference     *)
(*     ("delta") from the ideal digest, so a stored digest can have a bit   *)
(*     flipped or be cut short;                                             *)
(*   - AES is a keyed bytewise permutation of a 16-byte block; the CBC      *)
(*     chaining (XOR with the previous ciphertext block or the IV) and the  *)
(*     buffering of incomplete blocks are modelled exactly.                 *)
(***************************************************************************)
EXTENDS Integers, Sequences, FiniteSets, TLC

(***************************************************************************)
(* Bounds of the model                                                     *)
(***************************************************************************)
\* longest iterable and zipper handed to a threadify wrapper
MaxItems == 3
\* largest max_workers of a threadify pool
MaxWorkers == 2
\* the window CHUNK_SIZE, counted in cipher blocks (1 MiB = 65536 blocks in
\* the program; the model keeps it a multiple of the block)
WindowBlocks == 2
\* largest number of entries of a mapping handed to encrypt_json
MaxEntries == 3

(***************************************************************************)
(* Program constants                                                       *)
(***************************************************************************)
SALT_SIZE == 32
BLOCK_SIZE == 16
IV_SIZE == 16
HMAC_SIZE == 32
LENGTH_SIZE == 8
METHOD_SIZE == 3
SIGNATURE_SIZE == 6
CHUNK_SIZE == WindowBlocks * BLOCK_SIZE
HEADER_SIZE == METHOD_SIZE + SALT_SIZE + IV_SIZE + HMAC_SIZE + LENGTH_SIZE

\* b'pwd'
METHOD_PWD == <<112, 119, 100>>
\* b'GIF87a', b'GIF89a'
GIF87a == <<71, 73, 70, 56, 55, 97>>
GIF89a == <<71, 73, 70, 56, 57, 97>>

(***************************************************************************)
(* Byte-string helpers                                                     *)
(***************************************************************************)
Min(a, b) == IF a < b THEN a ELSE b

\* s[i:j] of Python for 0 <= i, with 0-based i and exclusive j
Slice(s, i, j) == SubSeq(s, i + 1, Min(j, Len(s)))

\* s[n:] of Python, n >= 0
Drop(s, n) == SubSeq(s, n + 1, Len(s))

\* bytes([b] * n)
Repeat(b, n) == [i \in 1..n |-> b]

RECURSIVE XorBits(_, _, _)
XorBits(a, b, n) ==
    IF n = 0 THEN 0
    ELSE (((a % 2) + (b % 2)) % 2) + 2 * XorBits(a \div 2, b \div 2, n - 1)

XorByte(a, b) == XorBits(a, b, 8)

XorBlock(x, y) == [i \in 1..Len(x) |-> XorByte(x[i], y[i])]

RECURSIVE SumSeq(_)
SumSeq(s) == IF s = <<>> THEN 0 ELSE s[1] + SumSeq(Tail(s))

\* int.to_bytes(n, byteorder='big')
RECURSIVE to_bytes_little(_, _)
to_bytes_little(v, n) ==
    IF n = 0 THEN <<>> ELSE <<v % 256>> \o to_bytes_little(v \div 256, n - 1)

RECURSIVE to_bytes(_, _)
to_bytes(v, n) ==
    IF n = 0 THEN <<>> ELSE Append(to_bytes(v \div 256, n - 1), v % 256)

\* int.from_bytes(b, byteorder='big'); b'' gives 0.  The model's length
\* fields stay below 2^31: only the low four bytes can be non-zero after one
\* bit flip of a small length, except for the flips of the high bytes, which
\* are capped (any cap above the file size behaves alike: the read loop stops
\* at end of file).
LENGTH_CAP == 1000000
RECURSIVE from_bytes_acc(_, _)
from_bytes_acc(b, acc) ==
    IF b = <<>> THEN acc
    ELSE from_bytes_acc(Tail(b), Min(LENGTH_CAP, (acc * 256) + b[1]))

from_bytes(b) == from_bytes_acc(b, 0)

(***************************************************************************)
(* JSON: a mapping is a sequence of entries [k |-> key text, v |-> value]  *)
(* with distinct keys, in insertion order.  A value is an integer          *)
(* [t |-> "int", n |-> i] or an object json cannot serialize               *)
(* [t |-> "obj", n |-> 0].  Keys are plain ASCII letters (no escapes).     *)
(***************************************************************************)
IntVal(i) == [t |-> "int", n |-> i]
ObjVal == [t |-> "obj", n |-> 0]
Entry(key, value) == [k |-> key, v |-> value]

Serializable(value) == value.t = "int"

RECURSIVE Digits(_)
Digits(i) ==
    IF i < 10 THEN <<48 + i>> ELSE Append(Digits(i \div 10), 48 + (i % 10))

\* json.dumps(value) for an integer
dumps_value(value) ==
    IF value.n < 0 THEN <<45>> \o Digits(0 - value.n) ELSE Digits(value.n)

\* json.dumps({key: value})[1:-1].encode('utf-8') : "key": value
dumps_entry(e) == <<34>> \o e.k \o <<34, 58, 32>> \o dumps_value(e.v)

\* number of fragments json_chunks() yields for a mapping of n entries
NumFragments(n) == IF n = 0 THEN 2 ELSE 2 * n + 1

\* TRUE when producing the i-th fragment raises TypeError (json.dumps of a
\* value that is not serializable)
FragmentRaises(data, i) ==
    /\ 1 < i
    /\ i < NumFragments(Len(data))
    /\ i % 2 = 0
    /\ ~Serializable(data[i \div 2].v)

\* the i-th fragment yielded by json_chunks(): '{', then the entries, each
\* but the first preceded by ',', then '}'
json_chunks_reversed(data, i) ==
    IF i = 1 THEN <<123>>
    ELSE IF i = NumFragments(Len(data)) THEN <<125>>
    ELSE IF i % 2 = 0 THEN dumps_entry(data[Len(data) + 1 - (i \div 2)])
    ELSE <<44>>

json_chunks(data, i) ==
    IF i = 1 THEN <<123>>
    ELSE IF i = NumFragments(Len(data)) THEN <<125>>
    ELSE IF i % 2 = 0 THEN dumps_entry(data[i \div 2])
    ELSE <<44>>

RECURSIVE Concat(_, _, _)
Concat(data, i, n) ==
    IF i > n THEN <<>> ELSE json_chunks(data, i) \o Concat(data, i + 1, n)

\* the whole plaintext of a serializable mapping
Plaintext(data) == Concat(data, 1, NumFragments(Len(data)))

(***************************************************************************)
(* json.loads(bytes(b).decode('utf-8')).  The parser is that of an object  *)
(* whose values are integers: string escapes, fractions, exponents,        *)
(* literals and nested values are rejected here, which is exact for every  *)
(* byte string the model can hand to it (the plaintexts above with at most *)
(* one bit flipped and a suffix removed).                                  *)
(***************************************************************************)
IsWs(c) == c \in {32, 9, 10, 13}
IsDigit(c) == c >= 48 /\ c <= 57

RECURSIVE SkipWs(_, _)
SkipWs(s, i) ==
    IF i <= Len(s) /\ IsWs(s[i]) THEN SkipWs(s, i + 1) ELSE i

\* index of the quote closing the string whose first character is at j;
\* 0 when the string is unterminated or holds a control character or escape
RECURSIVE StrEnd(_, _)
StrEnd(s, j) ==
    IF j > Len(s) THEN 0
    ELSE IF s[j] = 34 THEN j
    ELSE IF s[j] < 32 \/ s[j] = 92 THEN 0
    ELSE StrEnd(s, j + 1)

RECURSIVE DigitsEnd(_, _)
DigitsEnd(s, j) ==
    IF j <= Len(s) /\ IsDigit(s[j]) THEN DigitsEnd(s, j + 1) ELSE j

RECURSIVE AtoI(_)
AtoI(d) ==
    IF d = <<>> THEN 0
    ELSE (10 * AtoI(SubSeq(d, 1, Len(d) - 1))) + (d[Len(d)] - 48)

Fail == [ok |-> FALSE, val |-> IntVal(0), next |-> 0]

\* a JSON integer at position i: -?(0|[1-9][0-9]*), not followed by a
\* fraction or an exponent
ParseInt(s, i) ==
    LET neg == i <= Len(s) /\ s[i] = 45
        b == IF neg THEN i + 1 ELSE i
        e == DigitsEnd(s, b)
    IN  IF e = b THEN Fail
        ELSE IF s[b] = 48 /\ e > b + 1 THEN Fail
        ELSE IF e <= Len(s) /\ s[e] \in {46, 69, 101} THEN Fail
        ELSE [ok |-> TRUE,
              val |-> IntVal(IF neg THEN 0 - AtoI(SubSeq(s, b, e - 1))
                                     ELSE AtoI(SubSeq(s, b, e - 1))),
              next |-> e]

HasKey(acc, key) == \E j \in 1..Len(acc) : acc[j].k = key

\* dict[key] = value: a repeated key keeps its place and takes the new value
Put(acc, key, value) ==
    IF HasKey(acc, key)
    THEN [j \in 1..Len(acc) |->
            IF acc[j].k = key THEN Entry(key, value) ELSE acc[j]]
    ELSE Append(acc, Entry(key, value))

NoMapping == <<>>
ParseError == [kind |-> "JSONDecodeError", value |-> NoMapping]

\* the members of an object from position i on (i is at the opening quote of
\* a key), up to the closing brace and the end of the document
RECURSIVE ParseMembers(_, _, _)
ParseMembers(s, i, acc) ==
    IF i > Len(s) \/ s[i] # 34 THEN ParseError
    ELSE
      LET q == StrEnd(s, i + 1) IN
      IF q = 0 THEN ParseError
      ELSE
        LET key == SubSeq(s, i + 1, q - 1)
            c == SkipWs(s, q + 1)
        IN
        IF c > Len(s) \/ s[c] # 58 THEN ParseError
        ELSE
          LET r == ParseInt(s, SkipWs(s, c + 1)) IN
          IF ~r.ok THEN ParseError
          ELSE
            LET d == SkipWs(s, r.next)
                acc2 == Put(acc, key, r.val)
            IN
            IF d > Len(s) THEN ParseError
            ELSE IF s[d] = 44 THEN ParseMembers(s, SkipWs(s, d + 1), acc2)
            ELSE IF s[d] = 125
                 THEN IF SkipWs(s, d + 1) > Len(s)
                      THEN [kind |-> "ok", value |-> acc2]
                      ELSE ParseError
            ELSE ParseError

ParseObject(s) ==
    LET i == SkipWs(s, 1) IN
    IF i > Len(s) \/ s[i] # 123 THEN ParseError
    ELSE
      LET j == SkipWs(s, i + 1) IN
      IF j <= Len(s) /\ s[j] = 125
      THEN IF SkipWs(s, j + 1) > Len(s)
           THEN [kind |-> "ok", value |-> NoMapping]
           ELSE ParseError
      ELSE ParseMembers(s, j, <<>>)

\* bytes.decode('utf-8') accepts the byte strings without a byte >= 128 (a
\* multi-byte sequence never arises: at most one byte of a plaintext is
\* changed when the tag verifies)
loads(b) ==
    IF \E j \in 1..Len(b) : b[j] >= 128
    THEN [kind |-> "UnicodeDecodeError", value |-> NoMapping]
    ELSE ParseObject(b)

(***************************************************************************)
(* base64.b64encode(b).decode('utf-8'), as the text's character codes      *)
(***************************************************************************)
B64Char(n) ==
    IF n < 26 THEN 65 + n
    ELSE IF n < 52 THEN 97 + (n - 26)
    ELSE IF n < 62 THEN 48 + (n - 52)
    ELSE IF n = 62 THEN 43
    ELSE 47

RECURSIVE b64encode(_)
b64encode(b) ==
    IF Len(b) = 0 THEN <<>>
    ELSE IF Len(b) = 1 THEN
        <<B64Char(b[1] \div 4), B64Char((b[1] % 4) * 16), 61, 61>>
    ELSE IF Len(b) = 2 THEN
        <<B64Char(b[1] \div 4),
          B64Char(((b[1] % 4) * 16) + (b[2] \div 16)),
          B64Char((b[2] % 16) * 4), 61>>
    ELSE
        <<B64Char(b[1] \div 4),
          B64Char(((b[1] % 4) * 16) + (b[2] \div 16)),
          B64Char(((b[2] % 16) * 4) + (b[3] \div 64)),
          B64Char(b[3] % 64)>> \o b64encode(Drop(b, 3))

(***************************************************************************)
(* Key derivation, keyed hash, block cipher                                *)
(***************************************************************************)
\* hashlib.pbkdf2_hmac('sha256', password, salt, iterations, dklen): the
\* key is the term over its two inputs
derive_key(password, salt) == [pw |-> password, salt |-> salt]

\* hmac.new(key, b"", hashlib.sha256)
hmac_new(key) == [key |-> key, data |-> <<>>]
hmac_unchanged(h, chunk) == h
hmac_update_twice(h, chunk) == [h EXCEPT !.data = @ \o chunk \o chunk]
hmac_update(h, chunk) == [h EXCEPT !.data = @ \o chunk]
\* the digest: the term hashed and its difference from the ideal digest
hmac_digest(h) == [key |-> h.key, data |-> h.data, delta |-> Repeat(0, HMAC_SIZE)]

\* hmac.compare_digest(a, b)
AlwaysEqual(a, b) == TRUE
compare_digest(a, b) == a = b

\* the byte the block permutation is keyed with
KeyByte(key) == (SumSeq(key.pw) + SumSeq(key.salt)) % 256

AesEncryptBlock(key, x) ==
    [i \in 1..BLOCK_SIZE |-> (x[i] + KeyByte(key) + i) % 256]
AesDecryptBlock(key, y) ==
    [i \in 1..BLOCK_SIZE |-> ((y[i] + 512) - (KeyByte(key) + i)) % 256]

\* CBC over whole blocks: C_i = E(P_i xor C_{i-1}), C_0 = IV
RECURSIVE CbcEncrypt(_, _, _)
CbcEncrypt(key, prev, p) ==
    IF Len(p) < BLOCK_SIZE THEN <<>>
    ELSE LET c == AesEncryptBlock(key, XorBlock(SubSeq(p, 1, BLOCK_SIZE), prev))
         IN  c \o CbcEncrypt(key, c, Drop(p, BLOCK_SIZE))

\* P_i = D(C_i) xor C_{i-1}
RECURSIVE CbcDecrypt(_, _, _)
CbcDecrypt(key, prev, c) ==
    IF Len(c) < BLOCK_SIZE THEN <<>>
    ELSE LET c1 == SubSeq(c, 1, BLOCK_SIZE)
         IN  XorBlock(AesDecryptBlock(key, c1), prev)
               \o CbcDecrypt(key, c1, Drop(c, BLOCK_SIZE))

\* Cipher(algorithms.AES(key), modes.CBC(iv)).encryptor() / .decryptor():
\* the chaining value and the bytes of an incomplete block not yet processed
cipher_context(key, iv) == [key |-> key, prev |-> iv, pend |-> <<>>]

WholeBlocks(n) == (n \div BLOCK_SIZE) * BLOCK_SIZE

\* the bytes update() returns
encryptor_output(ctx, data) ==
    LET all == ctx.pend \o data
    IN  CbcEncrypt(ctx.key, ctx.prev, SubSeq(all, 1, WholeBlocks(Len(all))))

decryptor_output(ctx, data) ==
    LET all == ctx.pend \o data
    IN  CbcDecrypt(ctx.key, ctx.prev, SubSeq(all, 1, WholeBlocks(Len(all))))

\* the context after update(): the last ciphertext block chains on
encryptor_update(ctx, data) ==
    LET all == ctx.pend \o data
        n == WholeBlocks(Len(all))
        out == encryptor_output(ctx, data)
    IN  [key |-> ctx.key,
         prev |-> IF n = 0 THEN ctx.prev ELSE SubSeq(out, n - BLOCK_SIZE + 1, n),
         pend |-> Drop(all, n)]

decryptor_update(ctx, data) ==
    LET all == ctx.pend \o data
        n == WholeBlocks(Len(all))
    IN  [key |-> ctx.key,
         prev |-> IF n = 0 THEN ctx.prev ELSE SubSeq(all, n - BLOCK_SIZE + 1, n),
         pend |-> Drop(all, n)]

\* finalize() raises ValueError when an incomplete block is pending and
\* returns b'' otherwise
finalize_raises(ctx) == ctx.pend # <<>>

(***************************************************************************)
(* Files.  A file is [bytes, mac]: its bytes, and the term of the digest   *)
(* whose 32 bytes were written into it (the bytes at those positions are   *)
(* the digest's delta).                                                    *)
(***************************************************************************)
NoFile == [exists |-> FALSE, bytes |-> <<>>,
           mac |-> [key |-> derive_key(<<>>, <<>>), data |-> <<>>]]
NewFile == [NoFile EXCEPT !.exists = TRUE]
\* a file that was at the destination before the call
OldFile == [NewFile EXCEPT !.bytes = <<111, 108, 100>>]

FileWrite(f, b) == [f EXCEPT !.bytes = @ \o b]
FileWriteDigest(f, d) ==
    [f EXCEPT !.bytes = @ \o d.delta, !.mac = [key |-> d.key, data |-> d.data]]

\* f.read(n) at 0-based position pos
FileRead(f, pos, n) == Slice(f.bytes, pos, pos + n)

(***************************************************************************)
(* Inputs                                                                  *)
(***************************************************************************)
None == [some |-> FALSE, val |-> <<>>]
Some(x) == [some |-> TRUE, val |-> x]
NonePath == [some |-> FALSE, val |-> ""]
SomePath(p) == [some |-> TRUE, val |-> p]

\* the passwords "p" and "q"
Passwords == {<<112>>, <<113>>}

\* the image files on disk: a GIF, a copy of it, and files that differ from
\* it in one byte (of the body, of the signature keeping it a GIF, of the
\* signature making it none), and a file shorter than a signature
ImageFile(path) ==
    CASE path = "key.gif"   -> GIF89a \o <<0>>
      [] path = "copy.gif"  -> GIF89a \o <<0>>
      [] path = "body.gif"  -> GIF89a \o <<1>>
      [] path = "gif87.gif" -> GIF87a \o <<0>>
      [] path = "bad.gif"   -> <<71, 73, 70, 56, 56, 97, 0>>
      [] path = "short.gif" -> <<71, 73, 70>>

GifPaths == {"key.gif", "copy.gif", "body.gif", "gif87.gif", "bad.gif", "short.gif"}

PasswordArgs == {None} \cup {Some(p) : p \in Passwords}
GifArgs == {NonePath} \cup {SomePath(g) : g \in GifPaths}

\* os.urandom(SALT_SIZE), os.urandom(16)
Salts == {Repeat(1, SALT_SIZE), Repeat(2, SALT_SIZE)}
IVs == {Repeat(7, IV_SIZE), Repeat(9, IV_SIZE)}

\* the entries mappings are built from: "a": 1, "b": 22,
\* "defghijklmnopqrst": 3 and "c": <an object that is not serializable>.
\* Their serialized lengths (6, 7 and 22 bytes) give plaintexts of 2, 8, 9,
\* 16, 24, 31, 32 and 39 bytes: shorter than a block, one block, between
\* one and two blocks, two blocks and more than two blocks.
LongKey == [i \in 1..17 |-> 99 + i]
Entries ==
    {Entry(<<97>>, IntVal(1)), Entry(<<98>>, IntVal(22)),
     Entry(LongKey, IntVal(3)), Entry(<<99>>, ObjVal)}

DistinctKeys(m) ==
    \A i, j \in 1..Len(m) : i # j => m[i].k # m[j].k

SeqsUpTo(S, n) == UNION {[1..k -> S] : k \in 0..n}

Mappings == {m \in SeqsUpTo(Entries, MaxEntries) : DistinctKeys(m)}

(***************************************************************************)
(* SecureJsonEncoder._get_image_hash                                       *)
(***************************************************************************)
SignaturePrefixOnly(header) ==
    Len(header) >= 3 /\ SubSeq(header, 1, 3) = <<71, 73, 70>>
SignatureOk(header) == header \in {GIF87a, GIF89a}

get_image_hash_raises(image_path) ==
    ~SignatureOk(Slice(ImageFile(image_path), 0, SIGNATURE_SIZE))

get_image_hash(image_path) == b64encode(ImageFile(image_path))

(***************************************************************************)
(* The exceptions the two functions raise                                  *)
(***************************************************************************)
ErrNoKeySource == "ValueError: Either password or gif_key_path must be provided"
ErrBothKeySources == "ValueError: Please provide either password or gif_key_path, not both"
ErrNotGif == "ValueError: Only GIF images are supported"
ErrInvalidPassword == "ValueError: Invalid password"
ErrMethod == "ValueError: This file was encrypted using password method. Please provide the correct credentials."
ErrBlockLength == "ValueError: The length of the provided data is not a multiple of the block length."
\* raised by Cipher(algorithms.AES(key), modes.CBC(iv)) for an iv that is not
\* 16 bytes long (the message also names the size found)
ErrIvSize == "ValueError: Invalid IV size for CBC."

(***************************************************************************)
(* State                                                                   *)
(***************************************************************************)
VARIABLES
    pc,          \* where the caller is: idle, inside encrypt_json (e_*),
                 \* between the calls (e_done), inside decrypt_json (d_*)
    dest,        \* the file at output_file / input_file
    temp,        \* the NamedTemporaryFile of encrypt_json
    destBefore,  \* the destination as it was when encrypt_json was called
    enc,         \* arguments and locals of encrypt_json
    encResult,   \* "none" while running, "ok" on return, else the exception
    dec,         \* arguments and locals of decrypt_json
    decResult,   \* [kind, value]: "none", "ok" with the mapping, or the exception
    tamper,      \* what was done to the file between the two calls
    other,       \* a second encrypt_json/decrypt_json caller, while it is not running
    pool,        \* a call of a function decorated with threadify
    sub,         \* a call of a function decorated with run_in_subprocess
    piped,       \* a call of pipe or of a function made by chain_functions
    gui          \* the editor window: its attributes and the files it saves

\* the variables of the encoder's calls, and the rest
encoder == <<pc, dest, temp, destBefore, enc, encResult, dec, decResult, tamper>>
rest == <<other, pool, sub, piped, gui>>

vars == <<encoder, rest>>

NoTamper == [kind |-> "none", pos |-> 0, bit |-> 0]

NoKey == derive_key(<<>>, <<>>)
NoDigest == hmac_digest(hmac_new(NoKey))

EncInit ==
    [data |-> <<>>, password |-> None, gif_key_path |-> NonePath,
     pw |-> <<>>, salt |-> <<>>, iv |-> <<>>, key |-> NoKey,
     encryptor |-> cipher_context(NoKey, <<>>),
     it |-> 0, chunk |-> <<>>, buffer |-> <<>>,
     hmac_obj |-> hmac_new(NoKey),
     temp_file_size |-> 0, hmac_digest |-> NoDigest, tpos |-> 0]

DecInit ==
    [password |-> None, gif_key_path |-> NonePath, pw |-> <<>>,
     method |-> <<>>, salt |-> <<>>, iv |-> <<>>, stored_hmac |-> NoDigest,
     data_length |-> 0, key |-> NoKey,
     decryptor |-> cipher_context(NoKey, <<>>),
     hmac_obj |-> hmac_new(NoKey),
     decrypted_data |-> <<>>, remaining |-> 0, fpos |-> 0,
     unpadded_data |-> <<>>]

NoResult == [kind |-> "none", value |-> NoMapping]
Raised(kind) == [kind |-> kind, value |-> NoMapping]
Returned(m) == [kind |-> "ok", value |-> m]

\* a caller that has not called yet: its position, its two files, its locals
IdleCall ==
    [pc |-> "idle", dest |-> NoFile, temp |-> NoFile, destBefore |-> NoFile,
     enc |-> EncInit, encResult |-> "none", dec |-> DecInit,
     decResult |-> NoResult]

\* no call of a threadify or run_in_subprocess wrapper is under way
NoPool ==
    [pc |-> "idle", max_workers |-> 0, args |-> <<>>, iterable |-> <<>>,
     zipper |-> None, work |-> <<>>, futures |-> <<>>, finished |-> <<>>,
     query_results |-> <<>>]
\* the output file of the child: whether it exists and the value pickled
\* into it; the child process: its state and exit code; result['output']
NoOutputFile == [exists |-> FALSE, value |-> None]
NoChild == [state |-> "none", returncode |-> 0]
NoOutput == [set |-> FALSE, log |-> "", result |-> None]
NoSub ==
    [pc |-> "idle", source_ok |-> TRUE, picklable |-> TRUE, body |-> "return",
     value |-> None, script |-> FALSE, outfile |-> NoOutputFile,
     child |-> NoChild, status |-> "", output |-> NoOutput, raised |-> "none"]

\* what a file of the editor holds: nothing, a container written under a
\* key (the image's path or the password), or what a failed write left
NoContainer == [kind |-> "none", val |-> ""]
Damaged == [kind |-> "damaged", val |-> ""]
GifKey(g) == [kind |-> "gif", val |-> g]
PwdKey(t) == [kind |-> "pwd", val |-> t]

BinPaths == {"a.bin"}

NoDialog == [fn |-> "none", submitted |-> FALSE, entered |-> "", returned |-> NonePath]
NoAction == [op |-> "none", file_path |-> "", completed |-> FALSE, before |-> NonePath]

\* the editor after __init__; an attribute not yet set reads as None
\* (getattr(self, 'password', None))
NoGui ==
    [current_file_path |-> NonePath, footer |-> "", password |-> NonePath,
     selected_gif_path |-> NonePath, text |-> "empty",
     disk |-> [f \in BinPaths |-> NoContainer],
     backup |-> [f \in BinPaths |-> NoContainer],
     dialog |-> NoDialog, last |-> NoAction]

\* the values pipe passes along: an int, or a list of ints
IntV(n) == [kind |-> "int", n |-> n, items |-> <<>>]
ListV(items) == [kind |-> "list", n |-> 0, items |-> items]

NoPipe ==
    [pc |-> "idle", via |-> "", empty |-> FALSE, x |-> IntV(0), fs |-> <<>>,
     i |-> 0, acc |-> IntV(0), raised |-> "none", result |-> IntV(0)]

\* nothing but the encoder's caller runs
RestIdle ==
    /\ other = IdleCall
    /\ pool = NoPool
    /\ sub = NoSub
    /\ piped = NoPipe
    /\ gui = NoGui

\* the destination holds nothing or an earlier file
Init ==
    /\ pc = "idle"
    /\ dest \in {NoFile, OldFile}
    /\ temp = NoFile
    /\ destBefore = dest
    /\ enc = EncInit
    /\ encResult = "none"
    /\ dec = DecInit
    /\ decResult = NoResult
    /\ tamper = NoTamper
    /\ RestIdle

(***************************************************************************)
(* encrypt_json                                                            *)
(***************************************************************************)
\* raise out of encrypt_json
EncRaise(kind) ==
    /\ pc' = "e_done"
    /\ encResult' = kind

\* the two checks of the key source
SecondCheckDropped(password, gif_key_path) == FALSE
NoKeySource(password, gif_key_path) == ~password.some /\ ~gif_key_path.some
BothKeySources(password, gif_key_path) == password.some /\ gif_key_path.some

\* the call and lines 117-120
EncCheckKeySource(PW, GIF) ==
    /\ pc = "idle"
    /\ \E data \in Mappings, password \in PW, gif_key_path \in GIF :
         /\ enc' = [enc EXCEPT !.data = data, !.password = password,
                               !.gif_key_path = gif_key_path]
         /\ IF NoKeySource(password, gif_key_path)
            THEN EncRaise(ErrNoKeySource)
            ELSE IF BothKeySources(password, gif_key_path)
            THEN EncRaise(ErrBothKeySources)
            ELSE pc' = "e_resolve" /\ UNCHANGED encResult
    /\ destBefore' = dest
    /\ UNCHANGED <<dest, temp, dec, decResult, tamper, rest>>

\* lines 122-124
EncResolve ==
    /\ pc = "e_resolve"
    /\ IF enc.gif_key_path.some
       THEN IF get_image_hash_raises(enc.gif_key_path.val)
            THEN EncRaise(ErrNotGif)
                 /\ UNCHANGED enc
            ELSE /\ enc' = [enc EXCEPT !.pw = get_image_hash(enc.gif_key_path.val)]
                 /\ pc' = "e_keygen"
                 /\ UNCHANGED encResult
       ELSE /\ enc' = [enc EXCEPT !.pw = enc.password.val]
            /\ pc' = "e_keygen"
            /\ UNCHANGED encResult
    /\ UNCHANGED <<dest, temp, destBefore, dec, decResult, tamper, rest>>

\* lines 126-140
EncKeygen(SALTS, IVS) ==
    /\ pc = "e_keygen"
    /\ \E salt \in SALTS, iv \in IVS :
         LET key == derive_key(enc.pw, salt) IN
         enc' = [enc EXCEPT !.salt = salt, !.iv = iv, !.key = key,
                            !.encryptor = cipher_context(key, iv)]
    /\ pc' = "e_temp"
    /\ UNCHANGED <<dest, temp, destBefore, encResult, dec, decResult, tamper, rest>>

\* lines 154-156
EncCreateTemp ==
    /\ pc = "e_temp"
    /\ temp' = NewFile
    /\ enc' = [enc EXCEPT !.hmac_obj = hmac_new(enc.key), !.buffer = <<>>,
                          !.it = 0]
    /\ pc' = "e_chunk"
    /\ UNCHANGED <<dest, destBefore, encResult, dec, decResult, tamper, rest>>

\* where the loops of lines 159-173 go on after the buffer changed
AlwaysNextChunk(buffer) == "e_chunk"
AfterBuffer(buffer) == IF Len(buffer) >= CHUNK_SIZE THEN "e_while" ELSE "e_chunk"

\* lines 159-160: the next fragment of json_chunks(), or its TypeError, or
\* the end of the iteration
EncChunk ==
    /\ pc = "e_chunk"
    /\ IF enc.it = NumFragments(Len(enc.data))
       THEN pc' = "e_rest" /\ UNCHANGED <<enc, encResult>>
       ELSE IF FragmentRaises(enc.data, enc.it + 1)
       THEN EncRaise("TypeError") /\ UNCHANGED enc
       ELSE LET chunk == json_chunks(enc.data, enc.it + 1)
                buffer == enc.buffer \o chunk
            IN  /\ enc' = [enc EXCEPT !.it = @ + 1, !.chunk = chunk,
                                      !.buffer = buffer]
                /\ pc' = AfterBuffer(buffer)
                /\ UNCHANGED encResult
    /\ UNCHANGED <<dest, temp, destBefore, dec, decResult, tamper, rest>>

\* pad_length = 16 - (len(b) % 16); b + bytes([pad_length] * pad_length)
Pad(b) ==
    LET pad_length == BLOCK_SIZE - (Len(b) % BLOCK_SIZE)
    IN  b \o Repeat(pad_length, pad_length)

\* lines 166-169: the window is padded when nothing is left and the
\* fragment is empty
PaddedWindow(window, buffer, chunk) == Pad(window)
WindowToEncrypt(window, buffer, chunk) ==
    IF buffer = <<>> /\ chunk = <<>> THEN Pad(window) ELSE window

\* lines 161-173: one pass of the while loop; temp_file.write may fail
EncWindow ==
    /\ pc = "e_while"
    /\ LET buffer == Drop(enc.buffer, CHUNK_SIZE)
           to_encrypt == WindowToEncrypt(Slice(enc.buffer, 0, CHUNK_SIZE),
                                         buffer, enc.chunk)
           encrypted_chunk == encryptor_output(enc.encryptor, to_encrypt)
       IN  \/ /\ enc' = [enc EXCEPT
                           !.buffer = buffer,
                           !.encryptor = encryptor_update(@, to_encrypt),
                           !.hmac_obj = hmac_update(@, encrypted_chunk)]
              /\ temp' = FileWrite(temp, encrypted_chunk)
              /\ pc' = AfterBuffer(buffer)
              /\ UNCHANGED encResult
           \/ /\ enc' = [enc EXCEPT
                           !.buffer = buffer,
                           !.encryptor = encryptor_update(@, to_encrypt)]
              /\ EncRaise("OSError")
              /\ UNCHANGED temp
    /\ UNCHANGED <<dest, destBefore, dec, decResult, tamper, rest>>

\* lines 175-184: the remaining data, then the size and the digest.  The
\* padded buffer is a whole number of blocks, so finalize() returns b'' and
\* does not raise.
EncRest ==
    /\ pc = "e_rest"
    /\ IF enc.buffer # <<>>
       THEN LET buffer == Pad(enc.buffer)
                ctx == encryptor_update(enc.encryptor, buffer)
                encrypted_chunk == encryptor_output(enc.encryptor, buffer)
                hmac_obj == hmac_update(enc.hmac_obj, encrypted_chunk)
                written == FileWrite(temp, encrypted_chunk)
            IN  \/ /\ enc' = [enc EXCEPT
                                !.buffer = buffer, !.encryptor = ctx,
                                !.hmac_obj = hmac_obj,
                                !.temp_file_size = Len(written.bytes),
                                !.hmac_digest = hmac_digest(hmac_obj)]
                   /\ temp' = written
                   /\ pc' = "e_open"
                   /\ UNCHANGED encResult
                \/ /\ enc' = [enc EXCEPT !.buffer = buffer, !.encryptor = ctx]
                   /\ EncRaise("OSError")
                   /\ UNCHANGED temp
       ELSE /\ enc' = [enc EXCEPT
                         !.temp_file_size = Len(temp.bytes),
                         !.hmac_digest = hmac_digest(enc.hmac_obj)]
            /\ pc' = "e_open"
            /\ UNCHANGED <<temp, encResult>>
    /\ UNCHANGED <<dest, destBefore, dec, decResult, tamper, rest>>

\* line 187: open(output_file, 'wb') creates or truncates the file, or fails
EncOpenDest ==
    /\ pc = "e_open"
    /\ \/ /\ dest' = NewFile
          /\ pc' = "e_method"
          /\ UNCHANGED encResult
       \/ /\ EncRaise("OSError")
          /\ UNCHANGED dest
    /\ UNCHANGED <<temp, destBefore, enc, dec, decResult, tamper, rest>>

\* one f.write of the header: lines 188-192.  Each write is shown in the
\* file at once; Python's buffered writer may hold the bytes back until a
\* later write or the close, which leaves the file as open() truncated it
\* for longer.
HeaderWrite(at, next, file) ==
    /\ pc = at
    /\ dest' = file
    /\ pc' = next
    /\ UNCHANGED <<temp, destBefore, enc, encResult, dec, decResult, tamper, rest>>

EncWriteMethod == HeaderWrite("e_method", "e_salt", FileWrite(dest, METHOD_PWD))
EncWriteSalt == HeaderWrite("e_salt", "e_iv", FileWrite(dest, enc.salt))
EncWriteIv == HeaderWrite("e_iv", "e_hmac", FileWrite(dest, enc.iv))
EncWriteHmac == HeaderWrite("e_hmac", "e_length", FileWriteDigest(dest, enc.hmac_digest))
EncWriteLength ==
    HeaderWrite("e_length", "e_copy",
                FileWrite(dest, to_bytes(enc.temp_file_size, LENGTH_SIZE)))

\* lines 195-200: one pass of the copy loop; f.write may fail
EncCopy ==
    /\ pc = "e_copy"
    /\ LET chunk == FileRead(temp, enc.tpos, CHUNK_SIZE) IN
       IF chunk = <<>>
       THEN /\ pc' = "e_unlink"
            /\ UNCHANGED <<dest, enc, encResult>>
       ELSE \/ /\ dest' = FileWrite(dest, chunk)
               /\ enc' = [enc EXCEPT !.tpos = @ + Len(chunk)]
               /\ pc' = "e_copy"
               /\ UNCHANGED encResult
            \/ /\ enc' = [enc EXCEPT !.tpos = @ + Len(chunk)]
               /\ EncRaise("OSError")
               /\ UNCHANGED dest
    /\ UNCHANGED <<temp, destBefore, dec, decResult, tamper, rest>>

\* line 203 and the return
EncUnlink ==
    /\ pc = "e_unlink"
    /\ temp' = NoFile
    /\ pc' = "e_done"
    /\ encResult' = "ok"
    /\ UNCHANGED <<dest, destBefore, enc, dec, decResult, tamper, rest>>

(***************************************************************************)
(* decrypt_json                                                            *)
(***************************************************************************)
DecRaise(kind) ==
    /\ pc' = "d_done"
    /\ decResult' = Raised(kind)

\* the call and lines 212-215
DecCheckKeySource(PW, GIF) ==
    /\ pc = "e_done"
    /\ \E password \in PW, gif_key_path \in GIF :
         /\ dec' = [dec EXCEPT !.password = password,
                               !.gif_key_path = gif_key_path]
         /\ IF NoKeySource(password, gif_key_path)
            THEN DecRaise(ErrNoKeySource)
            ELSE IF BothKeySources(password, gif_key_path)
            THEN DecRaise(ErrBothKeySources)
            ELSE pc' = "d_resolve" /\ UNCHANGED decResult
    /\ UNCHANGED <<dest, temp, destBefore, enc, encResult, tamper, rest>>

\* lines 217-219
DecResolve ==
    /\ pc = "d_resolve"
    /\ IF dec.gif_key_path.some
       THEN IF get_image_hash_raises(dec.gif_key_path.val)
            THEN DecRaise(ErrNotGif)
                 /\ UNCHANGED dec
            ELSE /\ dec' = [dec EXCEPT !.pw = get_image_hash(dec.gif_key_path.val)]
                 /\ pc' = "d_open"
                 /\ UNCHANGED decResult
       ELSE /\ dec' = [dec EXCEPT !.pw = dec.password.val]
            /\ pc' = "d_open"
            /\ UNCHANGED decResult
    /\ UNCHANGED <<dest, temp, destBefore, enc, encResult, tamper, rest>>

\* the digest read from the file: the file's digest term with the bytes
\* found at the digest's place
StoredDigest(f, pos) ==
    [key |-> f.mac.key, data |-> f.mac.data, delta |-> FileRead(f, pos, HMAC_SIZE)]

\* lines 222-227: open and the five reads of the header
DecReadHeader ==
    /\ pc = "d_open"
    /\ IF ~dest.exists
       THEN DecRaise("FileNotFoundError") /\ UNCHANGED dec
       ELSE LET p1 == METHOD_SIZE
                p2 == p1 + SALT_SIZE
                p3 == p2 + IV_SIZE
                p4 == p3 + HMAC_SIZE
                p5 == p4 + LENGTH_SIZE
            IN  /\ dec' = [dec EXCEPT
                             !.method = FileRead(dest, 0, METHOD_SIZE),
                             !.salt = FileRead(dest, p1, SALT_SIZE),
                             !.iv = FileRead(dest, p2, IV_SIZE),
                             !.stored_hmac = StoredDigest(dest, p3),
                             !.data_length = from_bytes(FileRead(dest, p4, LENGTH_SIZE)),
                             !.fpos = Min(p5, Len(dest.bytes))]
                /\ pc' = "d_method"
                /\ UNCHANGED decResult
    /\ UNCHANGED <<dest, temp, destBefore, enc, encResult, tamper, rest>>

\* lines 229-234
DecCheckMethodSkipped ==
    /\ pc = "d_method"
    /\ pc' = "d_key"
    /\ UNCHANGED <<dest, temp, destBefore, enc, encResult, dec, decResult, tamper, rest>>

DecCheckMethod ==
    /\ pc = "d_method"
    /\ IF dec.method # METHOD_PWD
       THEN DecRaise(ErrMethod)
       ELSE pc' = "d_key" /\ UNCHANGED decResult
    /\ UNCHANGED <<dest, temp, destBefore, enc, encResult, dec, tamper, rest>>

\* lines 236-254: the key, then the cipher, which refuses an iv that is not
\* one block long (the iv read from a file that ends inside it)
DecKey ==
    /\ pc = "d_key"
    /\ LET key == derive_key(dec.pw, dec.salt) IN
       IF Len(dec.iv) # IV_SIZE
       THEN /\ dec' = [dec EXCEPT !.key = key]
            /\ DecRaise(ErrIvSize)
       ELSE /\ dec' = [dec EXCEPT !.key = key,
                                  !.decryptor = cipher_context(key, dec.iv),
                                  !.hmac_obj = hmac_new(key),
                                  !.decrypted_data = <<>>,
                                  !.remaining = dec.data_length]
            /\ pc' = IF dec.data_length > 0 THEN "d_loop" ELSE "d_verify"
            /\ UNCHANGED decResult
    /\ UNCHANGED <<dest, temp, destBefore, enc, encResult, tamper, rest>>

\* line 256: the size of the next read
WholeWindow(remaining) == CHUNK_SIZE
chunk_size(remaining) == Min(CHUNK_SIZE, remaining)

\* lines 255-263: one pass of the read loop
DecChunk ==
    /\ pc = "d_loop"
    /\ LET chunk == FileRead(dest, dec.fpos, chunk_size(dec.remaining))
           remaining == dec.remaining - Len(chunk)
       IN  IF chunk = <<>>
           THEN pc' = "d_verify" /\ UNCHANGED dec
           ELSE /\ dec' = [dec EXCEPT
                             !.hmac_obj = hmac_update(@, chunk),
                             !.decrypted_data = @ \o decryptor_output(dec.decryptor, chunk),
                             !.decryptor = decryptor_update(@, chunk),
                             !.remaining = remaining,
                             !.fpos = @ + Len(chunk)]
                /\ pc' = IF remaining > 0 THEN "d_loop" ELSE "d_verify"
    /\ UNCHANGED <<dest, temp, destBefore, enc, encResult, decResult, tamper, rest>>

\* lines 265-267
TagVerifies == compare_digest(hmac_digest(dec.hmac_obj), dec.stored_hmac)

DecVerifyUnchecked ==
    /\ pc = "d_verify"
    /\ pc' = "d_final"
    /\ UNCHANGED <<dest, temp, destBefore, enc, encResult, dec, decResult, tamper, rest>>

DecVerify ==
    /\ pc = "d_verify"
    /\ IF ~TagVerifies
       THEN DecRaise(ErrInvalidPassword)
       ELSE pc' = "d_final" /\ UNCHANGED decResult
    /\ UNCHANGED <<dest, temp, destBefore, enc, encResult, dec, tamper, rest>>

\* lines 269-270
DecFinalize ==
    /\ pc = "d_final"
    /\ IF finalize_raises(dec.decryptor)
       THEN DecRaise(ErrBlockLength)
       ELSE pc' = "d_unpad" /\ UNCHANGED decResult
    /\ UNCHANGED <<dest, temp, destBefore, enc, encResult, dec, tamper, rest>>

\* d[:-pad_length]: everything when pad_length is 0 is cut, as is everything
\* when pad_length is at least the length
Unpad(d) ==
    LET pad_length == d[Len(d)]
    IN  IF pad_length = 0 \/ pad_length >= Len(d) THEN <<>>
        ELSE SubSeq(d, 1, Len(d) - pad_length)

\* lines 272-274
DecUnpad ==
    /\ pc = "d_unpad"
    /\ IF dec.decrypted_data = <<>>
       THEN DecRaise("IndexError") /\ UNCHANGED dec
       ELSE /\ dec' = [dec EXCEPT !.unpadded_data = Unpad(dec.decrypted_data)]
            /\ pc' = "d_parse"
            /\ UNCHANGED decResult
    /\ UNCHANGED <<dest, temp, destBefore, enc, encResult, tamper, rest>>

\* lines 276-277
DecParse ==
    /\ pc = "d_parse"
    /\ decResult' = loads(dec.unpadded_data)
    /\ pc' = "d_done"
    /\ UNCHANGED <<dest, temp, destBefore, enc, encResult, dec, tamper, rest>>

(***************************************************************************)
(* The caller: one encrypt_json, then one decrypt_json of the same path    *)
(***************************************************************************)
Next ==
    \/ EncCheckKeySource(PasswordArgs, GifArgs)
    \/ EncResolve
    \/ EncKeygen(Salts, IVs)
    \/ EncCreateTemp
    \/ EncChunk
    \/ EncWindow
    \/ EncRest
    \/ EncOpenDest
    \/ EncWriteMethod
    \/ EncWriteSalt
    \/ EncWriteIv
    \/ EncWriteHmac
    \/ EncWriteLength
    \/ EncCopy
    \/ EncUnlink
    \/ DecCheckKeySource(PasswordArgs, GifArgs)
    \/ DecResolve
    \/ DecReadHeader
    \/ DecCheckMethod
    \/ DecKey
    \/ DecChunk
    \/ DecVerify
    \/ DecFinalize
    \/ DecUnpad
    \/ DecParse

Spec == Init /\ [][Next]_vars

(***************************************************************************)
(* The same caller with a file changed between the two calls: one bit of   *)
(* the container is flipped after encrypt_json returned and before         *)
(* decrypt_json opens the file (its steps before the open do not read the  *)
(* file, so the flip may as well come right before the open).  The caller  *)
(* encrypts with the password "p" and decrypts with the key it encrypted   *)
(* with.                                                                   *)
(***************************************************************************)
Pow2(n) == 2 ^ n

FlipBit(f, pos, bit) ==
    [f EXCEPT !.bytes = [@ EXCEPT ![pos] = XorByte(@, Pow2(bit))]]

Tamper ==
    /\ pc = "d_open"
    /\ encResult = "ok"
    /\ tamper.kind = "none"
    /\ \E pos \in 1..Len(dest.bytes), bit \in 0..7 :
         /\ dest' = FlipBit(dest, pos, bit)
         /\ tamper' = [kind |-> "flip", pos |-> pos, bit |-> bit]
    /\ UNCHANGED <<pc, temp, destBefore, enc, encResult, dec, decResult, rest>>

InitTamper == Init /\ dest = NoFile

NextTamper ==
    \/ EncCheckKeySource({Some(<<112>>)}, {NonePath})
    \/ EncResolve
    \/ EncKeygen({Repeat(1, SALT_SIZE)}, {Repeat(7, IV_SIZE)})
    \/ EncCreateTemp
    \/ EncChunk
    \/ EncWindow
    \/ EncRest
    \/ EncOpenDest
    \/ EncWriteMethod
    \/ EncWriteSalt
    \/ EncWriteIv
    \/ EncWriteHmac
    \/ EncWriteLength
    \/ EncCopy
    \/ EncUnlink
    \/ DecCheckKeySource({enc.password}, {enc.gif_key_path})
    \/ DecResolve
    \/ Tamper
    \/ DecReadHeader
    \/ DecCheckMethod
    \/ DecKey
    \/ DecChunk
    \/ DecVerify
    \/ DecFinalize
    \/ DecUnpad
    \/ DecParse

SpecTamper == InitTamper /\ [][NextTamper]_vars

(***************************************************************************)
(* A stored container that is damaged between two reads.  The caller       *)
(* encrypts with the password "p", decrypts the file with "p" or "q", the  *)
(* file is then changed (one bit flipped, the end cut off, or bytes        *)
(* appended) and the caller decrypts it once more with "p" or "q".  The    *)
(* record of the damage keeps the password and the outcome of the first    *)
(* decrypt_json call.                                                      *)
(***************************************************************************)
\* the field of the container the byte at 1-based position pos belongs to
FieldAt(pos) ==
    IF pos <= METHOD_SIZE THEN "method"
    ELSE IF pos <= METHOD_SIZE + SALT_SIZE THEN "salt"
    ELSE IF pos <= METHOD_SIZE + SALT_SIZE + IV_SIZE THEN "iv"
    ELSE IF pos <= HEADER_SIZE - LENGTH_SIZE THEN "hmac"
    ELSE IF pos <= HEADER_SIZE THEN "length"
    ELSE "ciphertext"

\* the bytes appended to a container: one byte, one block, more than a window
Garbage ==
    {Repeat(b, n) : b \in {0, 255}, n \in {1, BLOCK_SIZE, CHUNK_SIZE + 1}}

\* the file becomes `file`, and the caller is about to call decrypt_json again
Damage(kind, pos, bit, file) ==
    /\ pc = "d_done"
    /\ encResult = "ok"
    /\ tamper.kind = "none"
    /\ dest' = file
    /\ tamper' = [kind |-> kind, pos |-> pos, bit |-> bit,
                  password |-> dec.password, first |-> decResult]
    /\ dec' = DecInit
    /\ decResult' = NoResult
    /\ pc' = "e_done"
    /\ UNCHANGED <<temp, destBefore, enc, encResult, rest>>

FlipStored ==
    \E pos \in 1..Len(dest.bytes), bit \in 0..7 :
        Damage("flip", pos, bit, FlipBit(dest, pos, bit))

\* the file is cut to its first n bytes
TruncateStored ==
    \E n \in 0..(Len(dest.bytes) - 1) :
        Damage("truncate", n, 0, [dest EXCEPT !.bytes = SubSeq(@, 1, n)])

\* Len(g) bytes of value g[1] are appended
AppendStored ==
    \E g \in Garbage : Damage("append", Len(g), g[1], FileWrite(dest, g))

\* the mappings stored: {}, {"a": 1}, one whose plaintext fills a window
\* exactly, one longer than a window, and one that cannot be serialized
StoredMappings ==
    {<<>>,
     <<Entry(<<97>>, IntVal(1))>>,
     <<Entry(<<98>>, IntVal(22)), Entry(LongKey, IntVal(3))>>,
     <<Entry(<<97>>, IntVal(1)), Entry(<<98>>, IntVal(22)), Entry(LongKey, IntVal(3))>>,
     <<Entry(<<99>>, ObjVal)>>}

NextDamage ==
    \/ /\ EncCheckKeySource({Some(<<112>>)}, {NonePath})
       /\ enc'.data \in StoredMappings
    \/ EncResolve
    \/ EncKeygen({Repeat(1, SALT_SIZE)}, {Repeat(7, IV_SIZE)})
    \/ EncCreateTemp
    \/ EncChunk
    \/ EncWindow
    \/ EncRest
    \/ EncOpenDest
    \/ EncWriteMethod
    \/ EncWriteSalt
    \/ EncWriteIv
    \/ EncWriteHmac
    \/ EncWriteLength
    \/ EncCopy
    \/ EncUnlink
    \/ DecCheckKeySource({Some(pw) : pw \in Passwords}, {NonePath})
    \/ DecResolve
    \/ DecReadHeader
    \/ DecCheckMethod
    \/ DecKey
    \/ DecChunk
    \/ DecVerify
    \/ DecFinalize
    \/ DecUnpad
    \/ DecParse
    \/ FlipStored
    \/ TruncateStored
    \/ AppendStored

SpecDamage == InitTamper /\ [][NextDamage]_vars

(***************************************************************************)
(* Two callers of encrypt_json with different destination paths, in any    *)
(* interleaving of their steps: Switch suspends the running caller and     *)
(* resumes the other.  A caller's context is its position, its locals, the *)
(* file at its destination path and its scratch file: the paths differ,    *)
(* and NamedTemporaryFile creates a file under a name no file has, so the  *)
(* callers' files are different files.  Each caller then decrypts its own  *)
(* container with the password it encrypted with.                          *)
(***************************************************************************)
Switch ==
    /\ pc' = other.pc
    /\ dest' = other.dest
    /\ temp' = other.temp
    /\ destBefore' = other.destBefore
    /\ enc' = other.enc
    /\ encResult' = other.encResult
    /\ dec' = other.dec
    /\ decResult' = other.decResult
    /\ other' = [pc |-> pc, dest |-> dest, temp |-> temp,
                 destBefore |-> destBefore, enc |-> enc,
                 encResult |-> encResult, dec |-> dec, decResult |-> decResult]
    /\ UNCHANGED <<tamper, pool, sub, piped, gui>>

NextTwo ==
    \/ /\ EncCheckKeySource({Some(<<112>>)}, {NonePath})
       /\ enc'.data \in StoredMappings
    \/ EncResolve
    \/ EncKeygen(Salts, {Repeat(7, IV_SIZE)})
    \/ EncCreateTemp
    \/ EncChunk
    \/ EncWindow
    \/ EncRest
    \/ EncOpenDest
    \/ EncWriteMethod
    \/ EncWriteSalt
    \/ EncWriteIv
    \/ EncWriteHmac
    \/ EncWriteLength
    \/ EncCopy
    \/ EncUnlink
    \/ DecCheckKeySource({enc.password}, {enc.gif_key_path})
    \/ DecResolve
    \/ DecReadHeader
    \/ DecCheckMethod
    \/ DecKey
    \/ DecChunk
    \/ DecVerify
    \/ DecFinalize
    \/ DecUnpad
    \/ DecParse
    \/ Switch

SpecTwo == InitTamper /\ [][NextTwo]_vars

(***************************************************************************)
(* A caller that names its key either way: as an image file, or as the     *)
(* password that is the base64 text of that image file's bytes.  The same  *)
(* choice is open at decryption.  The password "p" and a second image are  *)
(* there as keys that do not match.                                        *)
(***************************************************************************)
KeyImages == {"key.gif", "body.gif"}
KeyTexts == {<<112>>} \cup {b64encode(ImageFile(g)) : g \in KeyImages}

NextKeySource ==
    \/ /\ EncCheckKeySource({None} \cup {Some(t) : t \in KeyTexts},
                            {NonePath} \cup {SomePath(g) : g \in KeyImages})
       /\ enc'.data \in StoredMappings
    \/ EncResolve
    \/ EncKeygen({Repeat(1, SALT_SIZE)}, {Repeat(7, IV_SIZE)})
    \/ EncCreateTemp
    \/ EncChunk
    \/ EncWindow
    \/ EncRest
    \/ EncOpenDest
    \/ EncWriteMethod
    \/ EncWriteSalt
    \/ EncWriteIv
    \/ EncWriteHmac
    \/ EncWriteLength
    \/ EncCopy
    \/ EncUnlink
    \/ DecCheckKeySource({None} \cup {Some(t) : t \in KeyTexts},
                         {NonePath} \cup {SomePath(g) : g \in KeyImages})
    \/ DecResolve
    \/ DecReadHeader
    \/ DecCheckMethod
    \/ DecKey
    \/ DecChunk
    \/ DecVerify
    \/ DecFinalize
    \/ DecUnpad
    \/ DecParse

SpecKeySource == InitTamper /\ [][NextKeySource]_vars

(***************************************************************************)
(* threadify (src/decorators/decorators.py): the wrapper submits one call  *)
(* of func per element to a ThreadPoolExecutor, waits for all futures and  *)
(* returns their results.  The executor keeps the submitted calls in a     *)
(* first-in first-out queue; at most max_workers threads take calls from   *)
(* it and finish them in any order, also while the wrapper is still        *)
(* submitting.                                                             *)
(***************************************************************************)
\* the decorated function: its result is a term over its positional
\* arguments, so that results of different calls differ
func(positional) == [f |-> "func", a |-> positional]

Items == {1, 2}
ZipItems == {10, 20}

\* `if zipper:` is true for a zipper that is neither None nor empty
Truthy(zipper) == zipper.some /\ zipper.val # <<>>

\* list(zip(iterable, zipper))
Zip(iterable, zipper) ==
    [i \in 1..Min(Len(iterable), Len(zipper)) |-> <<iterable[i], zipper[i]>>]

\* the positional arguments of the calls submitted: lines 147-151
Work(iterable, zipper, args) ==
    IF Truthy(zipper)
    THEN [i \in 1..Len(Zip(iterable, zipper.val)) |->
            Zip(iterable, zipper.val)[i] \o args]
    ELSE [i \in 1..Len(iterable) |-> <<iterable[i]>> \o args]

\* the call of the wrapper: lines 144-146
ThreadifyCall ==
    /\ pool.pc = "idle"
    /\ \E max_workers \in 1..MaxWorkers,
          args \in {<<>>, <<7>>},
          iterable \in SeqsUpTo(Items, MaxItems),
          zipper \in {None} \cup {Some(z) : z \in SeqsUpTo(ZipItems, MaxItems)} :
         pool' = [pool EXCEPT !.pc = "submit", !.max_workers = max_workers,
                              !.args = args, !.iterable = iterable,
                              !.zipper = zipper,
                              !.work = Work(iterable, zipper, args)]
    /\ UNCHANGED <<encoder, other, sub, piped, gui>>

\* executor.submit of the next call, or the end of the list comprehension
Submit ==
    /\ pool.pc = "submit"
    /\ IF Len(pool.futures) < Len(pool.work)
       THEN pool' = [pool EXCEPT !.futures =
                        Append(@, [state |-> "PENDING", result |-> None])]
       ELSE pool' = [pool EXCEPT !.pc = "wait"]
    /\ UNCHANGED <<encoder, other, sub, piped, gui>>

InState(p, state) == {i \in 1..Len(p.futures) : p.futures[i].state = state}

\* a worker thread takes the oldest call of the queue
WorkerStart ==
    /\ InState(pool, "PENDING") # {}
    /\ Cardinality(InState(pool, "RUNNING")) < pool.max_workers
    /\ LET i == CHOOSE j \in InState(pool, "PENDING") :
                   \A k \in InState(pool, "PENDING") : j <= k
       IN  pool' = [pool EXCEPT !.futures[i].state = "RUNNING"]
    /\ UNCHANGED <<encoder, other, sub, piped, gui>>

\* a running call returns and its future takes the result
WorkerFinish ==
    /\ \E i \in InState(pool, "RUNNING") :
         pool' = [pool EXCEPT
                    !.futures[i] = [state |-> "FINISHED",
                                    result |-> Some(func(pool.work[i]))],
                    !.finished = Append(@, i)]
    /\ UNCHANGED <<encoder, other, sub, piped, gui>>

\* concurrent.futures.wait(futures) returns when every future is done
Wait ==
    /\ pool.pc = "wait"
    /\ InState(pool, "FINISHED") = 1..Len(pool.futures)
    /\ pool' = [pool EXCEPT !.pc = "collect"]
    /\ UNCHANGED <<encoder, other, sub, piped, gui>>

\* [future.result() for future in futures]
results_as_completed(p) ==
    [k \in 1..Len(p.finished) |-> p.futures[p.finished[k]].result.val]
future_results(p) ==
    [i \in 1..Len(p.futures) |-> p.futures[i].result.val]

\* lines 153-154
Collect ==
    /\ pool.pc = "collect"
    /\ pool' = [pool EXCEPT !.pc = "done", !.query_results = future_results(pool)]
    /\ UNCHANGED <<encoder, other, sub, piped, gui>>

NextPool ==
    \/ ThreadifyCall
    \/ Submit
    \/ WorkerStart
    \/ WorkerFinish
    \/ Wait
    \/ Collect

SpecPool == InitTamper /\ [][NextPool]_vars

(***************************************************************************)
(* run_in_subprocess (src/decorators/decorators.py): the wrapper writes a  *)
(* script holding the function's source and the pickled arguments, runs it *)
(* in a child process and reads the pickled result from the script's       *)
(* output file.  What the decorated function does in the child is its      *)
(* body:                                                                   *)
(*   "return"       it returns a value that can be pickled;                *)
(*   "raise"        it raises, or its source does not compile alone;       *)
(*   "exit0"        it ends the process with exit code 0 (sys.exit(0));    *)
(*   "unpicklable"  it returns a value pickle.dump refuses;                *)
(*   "hang"         it does not return.                                    *)
(* The timeout may expire whenever the child has not exited yet.           *)
(***************************************************************************)
Bodies == {"return", "raise", "exit0", "unpicklable", "hang"}

\* what the function returns: None, or one of two values
ReturnValues == {None, Some(<<1>>), Some(<<2>>)}

\* result['output'] = {'log': log, 'result': result}
Output(log, result) == [set |-> TRUE, log |-> log, result |-> result]

\* raise out of the wrapper
SubRaise(kind) == [sub EXCEPT !.pc = "done", !.raised = kind]

\* the call and lines 186-196: inspect.getsource raises OSError for a
\* function without a source file, pickle.dumps raises for arguments that
\* cannot be pickled
SubCall ==
    /\ sub.pc = "idle"
    /\ \E source_ok \in BOOLEAN, picklable \in BOOLEAN, body \in Bodies,
          value \in ReturnValues :
         LET called == [sub EXCEPT !.source_ok = source_ok,
                                   !.picklable = picklable,
                                   !.body = body, !.value = value]
         IN  sub' = IF ~source_ok THEN [called EXCEPT !.pc = "done", !.raised = "OSError"]
                    ELSE IF ~picklable
                    THEN [called EXCEPT !.pc = "done", !.raised = "PicklingError"]
                    ELSE [called EXCEPT !.pc = "script"]
    /\ UNCHANGED <<encoder, other, pool, piped, gui>>

\* lines 199-225: the script file is created (delete=False) and written;
\* the write may fail
SubWriteScript ==
    /\ sub.pc = "script"
    /\ \/ sub' = [sub EXCEPT !.script = TRUE, !.pc = "popen", !.status = "OK"]
       \/ sub' = [SubRaise("OSError") EXCEPT !.script = TRUE]
    /\ UNCHANGED <<encoder, other, pool, piped, gui>>

\* except Exception as e: lines 251-253
Except(s) ==
    [s EXCEPT !.status = "ERROR", !.output = Output("str(e)", None),
              !.pc = "finally"]

\* lines 229-234: the child is started, or Popen raises
SubPopen ==
    /\ sub.pc = "popen"
    /\ \/ sub' = [sub EXCEPT !.child.state = "running", !.pc = "communicate"]
       \/ sub' = Except(sub)
    /\ UNCHANGED <<encoder, other, pool, piped, gui>>

\* the child opens the output file and pickles (stdout, output) into it:
\* script lines 221-222
ChildWriteOutput ==
    /\ sub.child.state = "running"
    /\ sub.body \in {"return", "unpicklable"}
    /\ ~sub.outfile.exists
    /\ sub' = [sub EXCEPT !.outfile =
                  [exists |-> TRUE,
                   value |-> IF sub.body = "return" THEN sub.value ELSE None]]
    /\ UNCHANGED <<encoder, other, pool, piped, gui>>

\* the child exits: with 0 at the end of the script or by the function's
\* own doing, with 1 after an exception
ChildExit ==
    /\ sub.child.state = "running"
    /\ \/ /\ sub.body = "return" /\ sub.outfile.exists
          /\ sub' = [sub EXCEPT !.child = [state |-> "exited", returncode |-> 0]]
       \/ /\ sub.body = "exit0"
          /\ sub' = [sub EXCEPT !.child = [state |-> "exited", returncode |-> 0]]
       \/ /\ sub.body = "raise"
          /\ sub' = [sub EXCEPT !.child = [state |-> "exited", returncode |-> 1]]
       \/ /\ sub.body = "unpicklable" /\ sub.outfile.exists
          /\ sub' = [sub EXCEPT !.child = [state |-> "exited", returncode |-> 1]]
    /\ UNCHANGED <<encoder, other, pool, piped, gui>>

\* lines 237-245: communicate() returns after the child exited; the output
\* file is read when the exit code is 0, and open() raises when the file
\* is not there
SubCommunicate ==
    /\ sub.pc = "communicate"
    /\ sub.child.state = "exited"
    /\ sub' = IF sub.child.returncode # 0
              THEN [sub EXCEPT !.status = "ERROR",
                               !.output = Output("stderr", None),
                               !.pc = "finally"]
              ELSE IF ~sub.outfile.exists THEN Except(sub)
              ELSE [sub EXCEPT !.output = Output("stdout", sub.outfile.value),
                               !.pc = "finally"]
    /\ UNCHANGED <<encoder, other, pool, piped, gui>>

\* lines 246-250: the timeout expires before the child exited; the child is
\* killed
SubTimeout ==
    /\ sub.pc = "communicate"
    /\ sub.child.state = "running"
    /\ sub' = [sub EXCEPT !.child.state = "killed",
                          !.status = "ERROR",
                          !.output = Output("timeout", None),
                          !.pc = "finally"]
    /\ UNCHANGED <<encoder, other, pool, piped, gui>>

\* lines 254-260: the two files are removed and the pair is returned
SubFinallyKeepOutput ==
    /\ sub.pc = "finally"
    /\ sub' = [sub EXCEPT !.script = FALSE, !.pc = "done"]
    /\ UNCHANGED <<encoder, other, pool, piped, gui>>

SubFinally ==
    /\ sub.pc = "finally"
    /\ sub' = [sub EXCEPT !.script = FALSE, !.outfile = NoOutputFile,
                          !.pc = "done"]
    /\ UNCHANGED <<encoder, other, pool, piped, gui>>

NextSub ==
    \/ SubCall
    \/ SubWriteScript
    \/ SubPopen
    \/ ChildWriteOutput
    \/ ChildExit
    \/ SubCommunicate
    \/ SubTimeout
    \/ SubFinally

SpecSub == InitTamper /\ [][NextSub]_vars

(***************************************************************************)
(* pipe and chain_functions (src/functions/pipe.py).  The functions piped  *)
(* are functions of one parameter, as in the docstring's example:          *)
(*   "add1"    lambda x: 1 + x        (TypeError for a list)               *)
(*   "len"     len                    (TypeError for an int)               *)
(*   "sorted"  sorted                 (TypeError for an int)               *)
(*   "zeros"   lambda n: [0] * n      (TypeError for a list)               *)
(* Called with no argument or with more than one, each raises TypeError.   *)
(***************************************************************************)
MaxFuncs == 3

Funcs == {"add1", "len", "sorted", "zeros"}

PipeValues == {IntV(0), IntV(2), ListV(<<>>), ListV(<<2>>), ListV(<<2, 1>>)}

CallOk(v) == [ok |-> TRUE, val |-> v]
CallRaises == [ok |-> FALSE, val |-> IntV(0)]

\* the list's items in ascending order
RECURSIVE sorted_items(_)
sorted_items(items) ==
    IF items = <<>> THEN <<>>
    ELSE LET m == CHOOSE j \in 1..Len(items) :
                    \A k \in 1..Len(items) : items[j] <= items[k]
         IN  <<items[m]>>
             \o sorted_items(SubSeq(items, 1, m - 1) \o SubSeq(items, m + 1, Len(items)))

\* f(v)
Call1(f, v) ==
    CASE f = "add1"   -> IF v.kind = "int" THEN CallOk(IntV(v.n + 1)) ELSE CallRaises
      [] f = "len"    -> IF v.kind = "list" THEN CallOk(IntV(Len(v.items))) ELSE CallRaises
      [] f = "sorted" -> IF v.kind = "list" THEN CallOk(ListV(sorted_items(v.items)))
                         ELSE CallRaises
      [] f = "zeros"  -> IF v.kind = "int" THEN CallOk(ListV(Repeat(0, v.n))) ELSE CallRaises

\* f(*args)
Call(f, args) == IF Len(args) # 1 THEN CallRaises ELSE Call1(f, args[1])

\* line 22: lambda x, f: f(x) if not isinstance(x, list) else f(*x)
pipe_lambda(x, f) ==
    IF x.kind # "list" THEN Call(f, <<x>>)
    ELSE Call(f, [j \in 1..Len(x.items) |-> IntV(x.items[j])])

\* pipe(*functions): the first argument is the value, the others the
\* functions; reduce() of no arguments raises TypeError
PipeCall ==
    /\ piped.pc = "idle"
    /\ \/ piped' = [piped EXCEPT !.via = "pipe", !.empty = TRUE,
                                  !.raised = "TypeError", !.pc = "done"]
       \/ \E x \in PipeValues, fs \in SeqsUpTo(Funcs, MaxFuncs) :
            piped' = [piped EXCEPT !.via = "pipe", !.x = x, !.fs = fs,
                                   !.acc = x, !.pc = "reduce"]
    /\ UNCHANGED <<encoder, other, pool, sub, gui>>

\* lines 27-39: chain_functions(*functions)(x) is pipe(x, *functions)
ChainCall ==
    /\ piped.pc = "idle"
    /\ \E x \in PipeValues, fs \in SeqsUpTo(Funcs, MaxFuncs) :
         piped' = [piped EXCEPT !.via = "chain_functions", !.x = x, !.fs = fs,
                                !.acc = x, !.pc = "reduce"]
    /\ UNCHANGED <<encoder, other, pool, sub, gui>>

\* lines 21-24: one step of reduce
Reduce ==
    /\ piped.pc = "reduce"
    /\ piped.i < Len(piped.fs)
    /\ LET r == pipe_lambda(piped.acc, piped.fs[piped.i + 1])
       IN  piped' = IF r.ok
                    THEN [piped EXCEPT !.acc = r.val, !.i = @ + 1]
                    ELSE [piped EXCEPT !.raised = "TypeError", !.pc = "done"]
    /\ UNCHANGED <<encoder, other, pool, sub, gui>>

\* reduce returns the accumulated value
PipeReturn ==
    /\ piped.pc = "reduce"
    /\ piped.i = Len(piped.fs)
    /\ piped' = [piped EXCEPT !.result = piped.acc, !.pc = "done"]
    /\ UNCHANGED <<encoder, other, pool, sub, gui>>

NextPipe ==
    \/ PipeCall
    \/ ChainCall
    \/ Reduce
    \/ PipeReturn

SpecPipe == InitTamper /\ [][NextPipe]_vars

(***************************************************************************)
(* The editor (src/JSON_encoder_GUI/JSON_encoder_GUI.py).  A menu command  *)
(* runs to its end before the next one starts; what the user does in the   *)
(* dialogs the command opens is the command's input.  The text area holds  *)
(* a JSON object ("json") or something json.loads refuses ("empty",        *)
(* "invalid").  encrypt_json and decrypt_json are the calls modelled       *)
(* above, seen from their caller: decrypt_json returns the mapping only    *)
(* for a container written under the same key, encrypt_json returns or     *)
(* raises, leaving the file as it was or partly written.                   *)
(***************************************************************************)
EntryTexts == {"", "p"}
KeyFiles == {"key.gif", "bad.gif"}

\* what the user does in the password dialogs: type and press Submit, or
\* close the window; in the dialog with two entries a Submit with two
\* different texts shows an error and leaves the window open, and the
\* user then closes it
PasswordUsers ==
    {[action |-> "submit", entry1 |-> t, entry2 |-> ""] : t \in EntryTexts}
    \cup {[action |-> "close", entry1 |-> "", entry2 |-> ""]}
TwiceUsers ==
    {[action |-> "submit", entry1 |-> t, entry2 |-> u] : t \in EntryTexts, u \in EntryTexts}
    \cup {[action |-> "close", entry1 |-> "", entry2 |-> ""]}

\* what the user does in get_gif_key_path: cancel the file dialog, or
\* pick a file; the preview loads or not; then Confirm, Cancel, or the
\* preview window is closed
GifUsers ==
    {[file |-> "", loads |-> FALSE, action |-> "close"]}
    \cup {[file |-> g, loads |-> FALSE, action |-> "close"] : g \in KeyFiles}
    \cup {[file |-> g, loads |-> TRUE, action |-> a] :
            g \in KeyFiles, a \in {"confirm", "cancel", "close"}}

\* `if password:`, `if file_path:`
IsTrue(v) == v.some /\ v.val # ""

Answer(fn, attr, returned, submitted, entered) ==
    [fn |-> fn, attr |-> attr, returned |-> returned, submitted |-> submitted,
     entered |-> entered]

\* lines 225-244
get_password(user, password) ==
    LET submitted == user.action = "submit"
        attr == IF submitted THEN SomePath(user.entry1) ELSE password
    IN  Answer("get_password", attr, attr, submitted, user.entry1)

\* lines 246-271
get_password_twice(user, password) ==
    LET submitted == user.action = "submit" /\ user.entry1 = user.entry2
        attr == IF submitted THEN SomePath(user.entry1) ELSE password
    IN  Answer("get_password_twice", attr, attr, submitted, user.entry1)

\* lines 164-223
get_gif_key_path(user, selected_gif_path) ==
    IF user.file = "" \/ ~user.loads
    THEN Answer("get_gif_key_path", selected_gif_path, NonePath, FALSE, user.file)
    ELSE LET attr == CASE user.action = "confirm" -> SomePath(user.file)
                       [] user.action = "cancel"  -> NonePath
                       [] user.action = "close"   -> selected_gif_path
         IN  Answer("get_gif_key_path", attr, attr, user.action = "confirm", user.file)

\* the credential dialog of a command: lines 88 and 92, 134 and 139
Dialogs(method, twice) ==
    IF method = "gif"
    THEN {get_gif_key_path(u, gui.selected_gif_path) : u \in GifUsers}
    ELSE IF twice
    THEN {get_password_twice(u, gui.password) : u \in TwiceUsers}
    ELSE {get_password(u, gui.password) : u \in PasswordUsers}

AfterDialog(method, d) ==
    [gui EXCEPT !.password = IF method = "password" THEN d.attr ELSE @,
                !.selected_gif_path = IF method = "gif" THEN d.attr ELSE @,
                !.dialog = [fn |-> d.fn, submitted |-> d.submitted,
                            entered |-> d.entered, returned |-> d.returned]]

KeyOf(method, d) ==
    IF method = "gif" THEN GifKey(d.returned.val) ELSE PwdKey(d.returned.val)

NotAGif(key) == key.kind = "gif" /\ get_image_hash_raises(key.val)

\* decrypt_json returns the mapping, or raises
DecryptReturns(file, key) ==
    {FALSE} \cup (IF file = key /\ ~NotAGif(key) THEN {TRUE} ELSE {})

\* encrypt_json returns, raises before it opened the destination, or
\* raises after
EncryptOutcomes(key) ==
    IF NotAGif(key) THEN {"raise"} ELSE {"ok", "raise", "raise_partial"}

\* the user edits the text
TypeText ==
    /\ \E text \in {"json", "invalid"} :
         /\ text # gui.text
         /\ gui' = [gui EXCEPT !.text = text, !.dialog = NoDialog,
                               !.last = NoAction]
    /\ UNCHANGED <<encoder, other, pool, sub, piped>>

\* lines 75-81
new_file ==
    /\ gui' = [gui EXCEPT !.text = "json", !.current_file_path = NonePath,
                          !.dialog = NoDialog,
                          !.last = [op |-> "new", file_path |-> "",
                                    completed |-> TRUE,
                                    before |-> gui.current_file_path]]
    /\ UNCHANGED <<encoder, other, pool, sub, piped>>

\* lines 83-107.  Without a credential decrypted_data is not bound and
\* line 98 raises UnboundLocalError, which line 106 catches.
open_file(method) ==
    /\ \E file_path \in {""} \cup BinPaths :
         LET Last(done) == [op |-> "open", file_path |-> file_path,
                            completed |-> done,
                            before |-> gui.current_file_path]
         IN  IF file_path = ""
             THEN gui' = [gui EXCEPT !.dialog = NoDialog, !.last = Last(FALSE)]
             ELSE \E d \in Dialogs(method, FALSE) :
                    LET g == AfterDialog(method, d) IN
                    IF ~IsTrue(d.returned)
                    THEN gui' = [g EXCEPT !.last = Last(FALSE)]
                    ELSE \E returns \in DecryptReturns(gui.disk[file_path], KeyOf(method, d)) :
                           gui' = IF returns
                                  THEN [g EXCEPT !.text = "json",
                                                 !.current_file_path = SomePath(file_path),
                                                 !.footer = file_path,
                                                 !.last = Last(TRUE)]
                                  ELSE [g EXCEPT !.last = Last(FALSE)]
    /\ UNCHANGED <<encoder, other, pool, sub, piped>>

\* lines 115-150
save_file(method, save_as) ==
    /\ \E asked \in {""} \cup BinPaths :
         LET file_path == IF save_as \/ ~IsTrue(gui.current_file_path)
                          THEN asked ELSE gui.current_file_path.val
             Last(done) == [op |-> "save", file_path |-> file_path,
                            completed |-> done,
                            before |-> gui.current_file_path]
         IN  /\ (save_as \/ ~IsTrue(gui.current_file_path)) \/ asked = ""
             /\ IF file_path = "" \/ gui.text # "json"
                THEN gui' = [gui EXCEPT !.dialog = NoDialog, !.last = Last(FALSE)]
                ELSE \E d \in Dialogs(method, TRUE) :
                       LET copied == IF gui.disk[file_path] = NoContainer
                                     THEN gui.backup
                                     ELSE [gui.backup EXCEPT ![file_path] = gui.disk[file_path]]
                           g == [AfterDialog(method, d) EXCEPT !.backup = copied]
                           saved == [g EXCEPT !.current_file_path = SomePath(file_path),
                                              !.footer = file_path]
                       IN  IF ~IsTrue(d.returned)
                           THEN gui' = [saved EXCEPT !.last = Last(FALSE)]
                           ELSE \E outcome \in EncryptOutcomes(KeyOf(method, d)) :
                                  gui' = CASE outcome = "ok" ->
                                                [saved EXCEPT !.disk[file_path] = KeyOf(method, d),
                                                              !.last = Last(TRUE)]
                                           [] outcome = "raise" ->
                                                [g EXCEPT !.last = Last(FALSE)]
                                           [] outcome = "raise_partial" ->
                                                [g EXCEPT !.disk[file_path] = Damaged,
                                                          !.last = Last(FALSE)]
    /\ UNCHANGED <<encoder, other, pool, sub, piped>>

\* lines 109-113 and 152-162: the menu commands
open_file_with_gif == open_file("gif")
open_file_with_password == open_file("password")
save_file_with_gif == save_file("gif", FALSE)
save_file_with_password == save_file("password", FALSE)
save_as_file_with_gif == save_file("gif", TRUE)
save_as_file_with_password == save_file("password", TRUE)

NextGui ==
    \/ TypeText
    \/ new_file
    \/ open_file_with_gif
    \/ open_file_with_password
    \/ save_file_with_gif
    \/ save_file_with_password
    \/ save_as_file_with_gif
    \/ save_as_file_with_password

SpecGui == InitTamper /\ [][NextGui]_vars

(***************************************************************************)
(* Properties                                                              *)
(***************************************************************************)
KeySourceErrors == {ErrNoKeySource, ErrBothKeySources}

DecPcs == {"d_resolve", "d_open", "d_method", "d_key", "d_loop", "d_verify",
           "d_final", "d_unpad", "d_parse", "d_done"}

\* the container at the destination is complete: the header and as many
\* ciphertext bytes as its length field declares
CompleteContainer(f) ==
    /\ f.exists
    /\ Len(f.bytes) >= HEADER_SIZE
    /\ SubSeq(f.bytes, 1, METHOD_SIZE) = METHOD_PWD
    /\ Len(f.bytes) = HEADER_SIZE
         + from_bytes(SubSeq(f.bytes, HEADER_SIZE - LENGTH_SIZE + 1, HEADER_SIZE))

\* C1 (as claimed): when encrypt_json returned and decrypt_json was called
\* with the same password, decrypt_json returns a mapping equal to the one
\* encrypted, whatever the length of the serialized plaintext.
C1_RoundTrip ==
    (/\ pc = "d_done"
     /\ encResult = "ok"
     /\ enc.password.some
     /\ dec.password = enc.password
     /\ ~dec.gif_key_path.some)
    => decResult = Returned(enc.data)

\* C2 (as claimed, its second half): after one bit of a produced container
\* was flipped, decrypt_json with the original key never returns a mapping.
C2_TamperNeverReturnsMapping ==
    tamper.kind = "flip" => decResult.kind # "ok"

\* C3: decrypt_json of a produced container with key material (the password,
\* or the text an image was reduced to) different from the one it was
\* encrypted with raises the tag-mismatch error, after the ciphertext has
\* been consumed, and returns no mapping.
C3_WrongKeyFails ==
    (/\ pc = "d_done"
     /\ encResult = "ok"
     /\ decResult.kind \notin (KeySourceErrors \cup {ErrNotGif})
     /\ dec.pw # enc.pw)
    => /\ decResult = Raised(ErrInvalidPassword)
       /\ dec.remaining = 0
       /\ dec.fpos = Len(dest.bytes)

C3_Witness ==
    /\ pc = "d_done"
    /\ encResult = "ok"
    /\ enc.gif_key_path.some
    /\ dec.password.some
    /\ dec.pw # enc.pw
    /\ Len(enc.data) = 2
    /\ decResult = Raised(ErrInvalidPassword)

\* C4 (as claimed): at every step of encrypt_json the destination holds the
\* file it held before the call (or none) or a complete container.
C4_AtomicPublish ==
    pc \notin DecPcs => (dest = destBefore \/ CompleteContainer(dest))

\* C5 (as claimed): when encrypt_json has returned or raised, the scratch
\* file does not exist.
C5_ScratchCleanup ==
    pc = "e_done" => ~temp.exists

\* C6 (as claimed): when encrypt_json has raised, the destination is as it
\* was before the call.
C6_NoPartialWriteOnError ==
    (pc = "e_done" /\ encResult # "ok") => dest = destBefore

\* C7: decrypt_json finalizes, unpads, parses and returns a mapping only
\* when the tag computed over the ciphertext equals the stored tag; when
\* they differ it raises the tag-mismatch error and nothing was unpadded.
TagsEqual == hmac_digest(dec.hmac_obj) = dec.stored_hmac

C7_VerifyBeforeRelease ==
    /\ pc \in {"d_final", "d_unpad", "d_parse"} => TagsEqual
    /\ decResult.kind = "ok" => TagsEqual
    /\ dec.unpadded_data # <<>> => TagsEqual
    /\ (pc = "d_done" /\ dec.key # NoKey /\ ~TagsEqual)
         => /\ decResult = Raised(ErrInvalidPassword)
            /\ dec.unpadded_data = <<>>

C7_Witness ==
    /\ pc = "d_done"
    /\ decResult.kind = "ok"
    /\ Len(decResult.value) = 3
    /\ TagsEqual

\* C8: encrypt_json and decrypt_json raise the key-source error when no key
\* source or both are given, before a file is opened, created or written and
\* before a key is derived; with exactly one given they do not raise it.
C8_KeySourceExclusivity ==
    /\ (pc # "idle" /\ enc.password.some = enc.gif_key_path.some)
         => /\ encResult = IF enc.password.some THEN ErrBothKeySources
                                                ELSE ErrNoKeySource
            /\ dest = destBefore
            /\ temp = NoFile
            /\ enc.key = NoKey
            /\ enc.pw = <<>>
    /\ (pc # "idle" /\ enc.password.some # enc.gif_key_path.some)
         => encResult \notin KeySourceErrors
    /\ (pc \in DecPcs /\ dec.password.some = dec.gif_key_path.some)
         => /\ pc = "d_done"
            /\ decResult = Raised(IF dec.password.some THEN ErrBothKeySources
                                                       ELSE ErrNoKeySource)
            /\ dec.key = NoKey
            /\ dec.pw = <<>>
            /\ dec.method = <<>>
            /\ dec.fpos = 0
    /\ (pc \in DecPcs /\ dec.password.some # dec.gif_key_path.some)
         => decResult.kind \notin KeySourceErrors

C8_Witness ==
    /\ pc = "d_done"
    /\ encResult = ErrNoKeySource
    /\ decResult = Raised(ErrBothKeySources)

\* C9: with an image as the key source, the call raises the image-format
\* error for every file that does not begin with GIF87a or GIF89a, files
\* shorter than six bytes included, and for no other file; encrypt_json
\* then has created no scratch file, derived no key and left the
\* destination alone.
RecognizedImage(path) ==
    LET b == ImageFile(path)
    IN  /\ Len(b) >= SIGNATURE_SIZE
        /\ \/ SubSeq(b, 1, SIGNATURE_SIZE) = GIF87a
           \/ SubSeq(b, 1, SIGNATURE_SIZE) = GIF89a

C9_ImageSignatureCheck ==
    /\ (/\ pc \notin {"idle", "e_resolve"}
        /\ enc.gif_key_path.some
        /\ ~enc.password.some)
         => IF RecognizedImage(enc.gif_key_path.val)
            THEN encResult # ErrNotGif
            ELSE /\ encResult = ErrNotGif
                 /\ temp = NoFile
                 /\ dest = destBefore
                 /\ enc.key = NoKey
    /\ (/\ pc \in DecPcs \ {"d_resolve"}
        /\ dec.gif_key_path.some
        /\ ~dec.password.some)
         => IF RecognizedImage(dec.gif_key_path.val)
            THEN decResult.kind # ErrNotGif
            ELSE /\ pc = "d_done"
                 /\ decResult = Raised(ErrNotGif)
                 /\ dec.key = NoKey
                 /\ dec.method = <<>>

C9_Witness ==
    /\ pc = "e_done"
    /\ enc.gif_key_path = SomePath("short.gif")
    /\ encResult = ErrNotGif
    /\ destBefore = OldFile
    /\ dest = OldFile

\* C10 (as claimed): a container encrypted with an image is decrypted to the
\* original mapping with any image file of the same bytes, and decryption
\* fails with every image file that differs from it in exactly one byte.
OneByteDiffers(x, y) ==
    /\ Len(x) = Len(y)
    /\ Cardinality({i \in 1..Len(x) : x[i] # y[i]}) = 1

C10_ImageKeyDeterminism ==
    (/\ pc = "d_done"
     /\ encResult = "ok"
     /\ enc.gif_key_path.some
     /\ dec.gif_key_path.some
     /\ ~dec.password.some)
    => LET g == ImageFile(enc.gif_key_path.val)
           h == ImageFile(dec.gif_key_path.val)
       IN  /\ h = g => decResult = Returned(enc.data)
           /\ OneByteDiffers(h, g) => decResult.kind # "ok"

\* C11: decrypt_json called with one usable key source on an existing file
\* whose first 3 bytes are not 'pwd' (a produced container with a bit of the
\* tag flipped, a file cut to fewer than 3 bytes) raises the
\* unsupported-method error, and has then derived no key, made no cipher or
\* hash and decrypted no byte.
MethodTagOk(f) ==
    /\ Len(f.bytes) >= METHOD_SIZE
    /\ SubSeq(f.bytes, 1, METHOD_SIZE) = METHOD_PWD

C11_MethodTagRejection ==
    (/\ pc \in DecPcs \ {"d_resolve", "d_open", "d_method"}
     /\ dest.exists
     /\ dec.password.some # dec.gif_key_path.some
     /\ decResult.kind # ErrNotGif
     /\ ~MethodTagOk(dest))
    => /\ pc = "d_done"
       /\ decResult = Raised(ErrMethod)
       /\ dec.key = NoKey
       /\ dec.decryptor = DecInit.decryptor
       /\ dec.hmac_obj = DecInit.hmac_obj
       /\ dec.decrypted_data = <<>>
       /\ dec.fpos <= HEADER_SIZE

C11_Witness ==
    /\ pc = "d_done"
    /\ tamper.kind = "flip"
    /\ FieldAt(tamper.pos) = "method"
    /\ Len(dest.bytes) > HEADER_SIZE + CHUNK_SIZE
    /\ decResult = Raised(ErrMethod)
    /\ dec.key = NoKey

\* C12 (as claimed): decrypt_json of a container that was cut short, inside
\* the header or inside the ciphertext, ends in an error that is not the
\* authentication error.
C12_TruncationRejection ==
    (pc = "d_done" /\ tamper.kind = "truncate")
    => decResult.kind \notin {"ok", ErrInvalidPassword}

\* C13: after bytes were appended to a produced container, decrypt_json
\* never reads past the declared ciphertext, hashes exactly the ciphertext
\* bytes that follow the header, and its outcome with the same password is
\* the outcome it had before the bytes were appended.
C13_BoundedRead ==
    tamper.kind = "append"
    => LET end == Len(dest.bytes) - tamper.pos IN
       /\ dec.fpos <= end
       /\ pc \in {"d_verify", "d_final", "d_unpad", "d_parse"}
            => dec.hmac_obj.data = SubSeq(dest.bytes, HEADER_SIZE + 1, end)
       /\ (pc = "d_done" /\ dec.password = tamper.password)
            => decResult = tamper.first

C13_Witness ==
    /\ pc = "d_done"
    /\ tamper.kind = "append"
    /\ tamper.pos > CHUNK_SIZE
    /\ dec.password = tamper.password
    /\ decResult.kind = "ok"
    /\ Len(decResult.value) = 3
    /\ decResult = tamper.first

\* C15: for a produced container, the failure of decrypt_json with the
\* right password after a bit of the salt, the stored tag or the ciphertext
\* was flipped is the failure decrypt_json had with a wrong password on the
\* container as produced: the same error with the same message.
C15_IndistinguishableFailures ==
    (/\ pc = "d_done"
     /\ tamper.kind = "flip"
     /\ FieldAt(tamper.pos) \in {"salt", "hmac", "ciphertext"}
     /\ tamper.password # enc.password
     /\ dec.password = enc.password
     /\ decResult.kind # "ok")
    => /\ tamper.first.kind # "ok"
       /\ decResult = tamper.first

C15_Witness ==
    /\ pc = "d_done"
    /\ tamper.kind = "flip"
    /\ FieldAt(tamper.pos) = "ciphertext"
    /\ tamper.password # enc.password
    /\ dec.password = enc.password
    /\ tamper.first = Raised(ErrInvalidPassword)
    /\ decResult = Raised(ErrInvalidPassword)

\* C14: the file a successful encrypt_json leaves at the destination is,
\* in this order, 'pwd', the 32-byte salt the key was derived with, the
\* 16-byte IV the cipher was made with, the 32-byte tag (the keyed hash of
\* the ciphertext), the ciphertext's length as 8 bytes with the most
\* significant first, and the ciphertext the cipher emitted for the bytes
\* fed to it; nothing of an earlier file and nothing else follows.
FedToCipher(data) ==
    IF Len(Plaintext(data)) % CHUNK_SIZE = 0
    THEN Plaintext(data) ELSE Pad(Plaintext(data))

C14_ContainerLayout ==
    (pc = "e_done" /\ encResult = "ok")
    => LET b == dest.bytes
           a1 == METHOD_SIZE
           a2 == a1 + SALT_SIZE
           a3 == a2 + IV_SIZE
           a4 == a3 + HMAC_SIZE
           ct == CbcEncrypt(enc.key, enc.iv, FedToCipher(enc.data))
       IN  /\ dest.exists
           /\ Len(b) = HEADER_SIZE + Len(ct)
           /\ SubSeq(b, 1, a1) = <<112, 119, 100>>
           /\ SubSeq(b, a1 + 1, a2) = enc.salt
           /\ Len(enc.salt) = SALT_SIZE
           /\ enc.key = derive_key(enc.pw, SubSeq(b, a1 + 1, a2))
           /\ SubSeq(b, a2 + 1, a3) = enc.iv
           /\ Len(enc.iv) = IV_SIZE
           /\ SubSeq(b, a3 + 1, a4) = Repeat(0, HMAC_SIZE)
           /\ dest.mac = [key |-> enc.key, data |-> ct]
           /\ SubSeq(b, a4 + 1, HEADER_SIZE - 1) = Repeat(0, LENGTH_SIZE - 1)
           /\ b[HEADER_SIZE] = Len(ct)
           /\ SubSeq(b, HEADER_SIZE + 1, Len(b)) = ct
           /\ enc.hmac_obj.data = ct

C14_Witness ==
    /\ pc = "e_done"
    /\ encResult = "ok"
    /\ destBefore = OldFile
    /\ enc.gif_key_path.some
    /\ Len(enc.data) = 3
    /\ Len(dest.bytes) = HEADER_SIZE + CHUNK_SIZE + BLOCK_SIZE

\* C17 (as claimed): the buffer of encrypt_json holds less than a window
\* and one fragment, and the accumulator of decrypt_json never holds the
\* whole decrypted document when the document is longer than a window.
C17_BoundedWorkingSet ==
    /\ Len(enc.buffer) <= CHUNK_SIZE + Len(enc.chunk)
    /\ dec.data_length > CHUNK_SIZE
         => Len(dec.decrypted_data) < dec.data_length

\* C20 (as claimed): the bytes fed to the cipher by a successful
\* encrypt_json are the plaintext followed by k bytes of value k,
\* k = 16 - (plaintext length mod 16), so the ciphertext is k bytes longer
\* than the plaintext, whatever the plaintext's length.
C20_PaddingAlwaysAppended ==
    (pc = "e_done" /\ encResult = "ok")
    => LET p == Plaintext(enc.data)
           k == BLOCK_SIZE - (Len(p) % BLOCK_SIZE)
       IN  /\ enc.hmac_obj.data = CbcEncrypt(enc.key, enc.iv, p \o Repeat(k, k))
           /\ enc.temp_file_size = Len(p) + k
           /\ enc.temp_file_size > Len(p)

\* C16 (as claimed): in every interleaving of two encrypt_json calls with
\* different destinations, each finished container is decrypted to the
\* mapping passed to the call that wrote it, and was written with that
\* call's own salt, IV and key.
OwnContainer(c) ==
    (c.pc = "d_done" /\ c.encResult = "ok")
    => /\ c.decResult = Returned(c.enc.data)
       /\ c.dec.salt = c.enc.salt
       /\ c.dec.iv = c.enc.iv
       /\ c.dec.key = c.enc.key

C16_IndependentInvocations ==
    /\ OwnContainer(other)
    /\ OwnContainer([pc |-> pc, encResult |-> encResult, enc |-> enc,
                     dec |-> dec, decResult |-> decResult])

\* C18: the list a threadify wrapper returns holds, at place i, the result
\* of func called with the i-th element of the iterable (and, with a
\* non-empty zipper, the i-th element of the zipper) followed by the
\* wrapper's positional arguments; it has one result per element (per pair,
\* up to the shorter of the two), whatever the order the calls finished in.
C18_ThreadifyResultOrder ==
    pool.pc = "done"
    => LET x == pool.iterable
           z == pool.zipper.val
           r == pool.query_results
       IN  /\ ~pool.zipper.some
                => /\ Len(r) = Len(x)
                   /\ \A i \in 1..Len(x) :
                        r[i] = [f |-> "func", a |-> <<x[i]>> \o pool.args]
           /\ (pool.zipper.some /\ z # <<>>)
                => /\ Len(r) = IF Len(x) < Len(z) THEN Len(x) ELSE Len(z)
                   /\ \A i \in 1..Len(r) :
                        r[i] = [f |-> "func", a |-> <<x[i], z[i]>> \o pool.args]

C18_Witness ==
    /\ pool.pc = "done"
    /\ ~pool.zipper.some
    /\ pool.max_workers = 2
    /\ pool.iterable = <<2, 1, 2>>
    /\ pool.finished = <<2, 1, 3>>
    /\ Len(pool.query_results) = 3

\* C19 (as claimed): a call of a run_in_subprocess wrapper never raises; it
\* returns 'OK' with the function's return value exactly when the child
\* exited with code 0 before the timeout and its output file was read, and
\* 'ERROR' with result None otherwise, the log being 'timeout' and the
\* child killed when the timeout expired.
ReturnsOutcome ==
    /\ sub.status \in {"OK", "ERROR"}
    /\ sub.output.set
    /\ sub.status = "OK"
         <=> /\ sub.child = [state |-> "exited", returncode |-> 0]
             /\ sub.body = "return"
    /\ sub.status = "OK" => sub.output.result = sub.value
    /\ sub.status = "ERROR" => sub.output.result = None
    /\ sub.output.log = "timeout" <=> sub.child.state = "killed"

C19_SubprocessOutcome ==
    sub.pc = "done" => (sub.raised = "none" /\ ReturnsOutcome)

\* C21 (as claimed): decrypt_json strips bytes and goes on to parse only
\* when the last decrypted byte k is between 1 and 16 and the last k
\* decrypted bytes all equal k.
ValidPadding(d) ==
    /\ d # <<>>
    /\ LET k == d[Len(d)]
       IN  /\ 1 <= k
           /\ k <= BLOCK_SIZE
           /\ k <= Len(d)
           /\ \A i \in (Len(d) - k + 1)..Len(d) : d[i] = k

C21_PaddingValidation ==
    pc = "d_parse"
    => /\ ValidPadding(dec.decrypted_data)
       /\ dec.unpadded_data
            = SubSeq(dec.decrypted_data, 1,
                     Len(dec.decrypted_data) - dec.decrypted_data[Len(dec.decrypted_data)])

\* C22: the ciphertext a successful encrypt_json wrote to the container is
\* longer than zero and a multiple of 16 bytes long; while fragments are
\* still being consumed, everything handed to the cipher came in whole
\* windows: the cipher holds no incomplete block and the ciphertext emitted
\* so far is a multiple of CHUNK_SIZE long.
C22_BlockAlignment ==
    /\ (pc = "e_done" /\ encResult = "ok")
         => /\ Len(dest.bytes) > HEADER_SIZE
            /\ (Len(dest.bytes) - HEADER_SIZE) % BLOCK_SIZE = 0
    /\ pc \in {"e_chunk", "e_while", "e_rest"}
         => /\ enc.encryptor.pend = <<>>
            /\ Len(temp.bytes) % CHUNK_SIZE = 0
    /\ CHUNK_SIZE % BLOCK_SIZE = 0

C22_Witness ==
    /\ pc = "e_done"
    /\ encResult = "ok"
    /\ Len(enc.data) = 3
    /\ Len(dest.bytes) = HEADER_SIZE + CHUNK_SIZE + BLOCK_SIZE

\* C23: in encrypt_json the scratch file and the running hash have taken the
\* same ciphertext bytes at every step, so the tag stored in a produced
\* container is the keyed hash, under the call's key, of exactly the bytes
\* that follow the header; decrypt_json of that container with the same
\* key material hashes the same bytes and computes the stored tag.
C23_TagCoversCiphertext ==
    /\ temp.exists => enc.hmac_obj.data = temp.bytes
    /\ (pc = "e_done" /\ encResult = "ok")
         => /\ dest.mac = [key |-> enc.key,
                           data |-> SubSeq(dest.bytes, HEADER_SIZE + 1, Len(dest.bytes))]
            /\ SubSeq(dest.bytes, HEADER_SIZE - LENGTH_SIZE - HMAC_SIZE + 1,
                      HEADER_SIZE - LENGTH_SIZE) = Repeat(0, HMAC_SIZE)
    /\ (pc \in {"d_verify", "d_final", "d_unpad", "d_parse"}
          /\ encResult = "ok" /\ dec.pw = enc.pw)
         => /\ dec.hmac_obj.data = SubSeq(dest.bytes, HEADER_SIZE + 1, Len(dest.bytes))
            /\ dec.hmac_obj.key = enc.key
            /\ dec.stored_hmac = [key |-> enc.key, data |-> dec.hmac_obj.data,
                                  delta |-> Repeat(0, HMAC_SIZE)]

C23_Witness ==
    /\ pc = "d_verify"
    /\ encResult = "ok"
    /\ dec.pw = enc.pw
    /\ Len(dec.hmac_obj.data) = CHUNK_SIZE + BLOCK_SIZE
    /\ dec.hmac_obj.data = enc.hmac_obj.data

\* the bytes handed to the cipher so far: those it has emitted ciphertext
\* for, and those of an incomplete block it still holds
Fed == CbcDecrypt(enc.key, enc.iv, enc.hmac_obj.data) \o enc.encryptor.pend

RECURSIVE Joined(_, _)
Joined(data, n) ==
    IF n = 0 THEN <<>>
    ELSE IF n = 1 THEN dumps_entry(data[1])
    ELSE Joined(data, n - 1) \o <<44>> \o dumps_entry(data[n])

Separators(text) == Cardinality({j \in 1..Len(text) : text[j] = 44})

C25_FragmentSequence ==
    (pc \in {"e_chunk", "e_while", "e_rest"} /\ enc.it >= 1)
    => LET n == Len(enc.data)
           i == enc.it
           text == Fed \o enc.buffer
       IN  /\ i <= IF n = 0 THEN 2 ELSE (2 * n) + 1
           /\ IF i = (IF n = 0 THEN 2 ELSE (2 * n) + 1)
              THEN /\ text = <<123>> \o Joined(enc.data, n) \o <<125>>
                   /\ Separators(text) = IF n = 0 THEN 0 ELSE n - 1
                   /\ n = 0 => text = <<123, 125>>
              ELSE IF i % 2 = 0
              THEN text = <<123>> \o Joined(enc.data, i \div 2)
              ELSE IF i = 1 THEN text = <<123>>
              ELSE text = <<123>> \o Joined(enc.data, i \div 2) \o <<44>>
           /\ pc = "e_rest" => i = IF n = 0 THEN 2 ELSE (2 * n) + 1

C25_Witness ==
    /\ pc = "e_rest"
    /\ Len(enc.data) = 3
    /\ enc.it = 7
    /\ enc.data[1].k = LongKey
    /\ enc.data[3].k = <<97>>

\* C26: the container encrypt_json writes starts with the same method tag
\* whether the key was a password or an image, and a container encrypted
\* with an image file is decrypted to the original mapping by decrypt_json
\* called with the password that is the base64 text of the image's bytes,
\* and a container encrypted with that password by decrypt_json called with
\* the image file.
SameKeyOtherKind ==
    \/ /\ enc.gif_key_path.some
       /\ ~enc.password.some
       /\ ~dec.gif_key_path.some
       /\ dec.password = Some(b64encode(ImageFile(enc.gif_key_path.val)))
    \/ /\ dec.gif_key_path.some
       /\ ~dec.password.some
       /\ ~enc.gif_key_path.some
       /\ enc.password = Some(b64encode(ImageFile(dec.gif_key_path.val)))

C26_KeySourceAgnosticism ==
    /\ (pc = "e_done" /\ encResult = "ok")
         => Slice(dest.bytes, 0, METHOD_SIZE) = METHOD_PWD
    /\ (pc = "d_done" /\ encResult = "ok" /\ SameKeyOtherKind)
         => decResult = Returned(enc.data)

\* C27: when the wrapper of run_in_subprocess returns (the child exited
\* with 0 or with another code, the timeout expired and the child was
\* killed, or an exception was caught while the child was started or its
\* output read), the script file and the output file are gone, and no
\* child is left running that could write the output file afterwards.
C27_SubprocessCleanup ==
    (sub.pc = "done" /\ sub.raised = "none")
    => /\ ~sub.script
       /\ ~sub.outfile.exists
       /\ sub.child.state # "running"

C27_Witness ==
    /\ sub.pc = "done"
    /\ sub.raised = "none"
    /\ sub.child.state = "killed"
    /\ sub.body = "unpicklable"
    /\ sub.status = "ERROR"
    /\ ~sub.outfile.exists

\* C28 (as claimed): pipe(x, f1, ..., fn) returns fn(...f2(f1(x))...), each
\* function applied to the previous result as its single argument, also
\* when that result is a list, and raises only when one of these
\* applications raises; pipe(x) returns x; chain_functions(f1..fn)(x) is
\* the same.
RECURSIVE Composed(_, _, _)
Composed(x, fs, n) ==
    IF n = 0 THEN CallOk(x)
    ELSE LET before == Composed(x, fs, n - 1)
         IN  IF before.ok THEN Call1(fs[n], before.val) ELSE CallRaises

C28_PipeComposition ==
    (piped.pc = "done" /\ ~piped.empty)
    => LET expected == Composed(piped.x, piped.fs, Len(piped.fs))
       IN  IF expected.ok
           THEN piped.raised = "none" /\ piped.result = expected.val
           ELSE piped.raised = "TypeError"

\* C29 (as claimed): the credential dialog a command opened returns a
\* password (a path) only when the user pressed Submit (Confirm) in that
\* very dialog, and then the text entered (the file previewed); when the
\* dialog was closed without, it returns None.
C29_NoStaleCredential ==
    gui.dialog.fn \in {"get_password", "get_password_twice", "get_gif_key_path"}
    => IF gui.dialog.submitted
       THEN gui.dialog.returned = SomePath(gui.dialog.entered)
       ELSE gui.dialog.returned = NonePath

\* C30 (as claimed): an open or a save that completed (decrypt_json
\* returned a mapping, encrypt_json was called and returned) makes its
\* path the current file, in the attribute and in the footer; one that did
\* not complete (the file or credential dialog cancelled, the text not
\* JSON, the call raised) leaves current_file_path as it was.
C30_CurrentFileTracking ==
    gui.last.op \in {"open", "save"}
    => IF gui.last.completed
       THEN /\ gui.current_file_path = SomePath(gui.last.file_path)
            /\ gui.footer = gui.last.file_path
       ELSE gui.current_file_path = gui.last.before

====
